---- MODULE Spec2Model ----
(***************************************************************************)
(* Rural survey bot backend: the request pipeline of routers/chat.py       *)
(* (intent -> tiered data chain -> response assembler), and the per-API    *)
(* rate limiter of services/api_client.py.                                 *)
(*                                                                         *)
(* Spec    the chat pipeline, one request at a time (the handlers share no *)
(*         state with each other apart from the rate limiter).             *)
(* SpecRL  the rate limiter under concurrently in-flight callers.          *)
(***************************************************************************)
EXTENDS Integers, Sequences, FiniteSets, TLC

VARIABLES
    pc,                 \* position of the request inside ask_question
    req,                \* the ChatRequest and what the outside world will answer
    intent,             \* the Intent handed to the handler (name, entities)
    calls,              \* tiers invoked for this request, in order
    tierOut,            \* what each invoked tier returned
    result,             \* the handler's DataSourceResult
    response,           \* what generate_response returned
    chat,               \* the ChatResponse sent back
    now,                \* time.time(), in seconds
    request_counts,     \* APIClient.request_counts (a dict keyed by API name)
    last_request_time,  \* APIClient.last_request_time (a dict keyed by API name)
    rl,                 \* each caller's position inside _rate_limit_check
    admits,             \* the calls the rate-limit check has admitted: API name,
                        \* time, and the window start recorded at that moment
    gen,                \* one call of generate_response: arguments and return value
    cls,                \* one call of detect_intent: question and returned Intent
    sent,               \* one call of analyze_sentiment: text, language, Sentiment
    batch,              \* one call of analyze_batch_sentiments: texts and results
    clar,               \* one call of generate_clarification_question
    det,                \* one call of _determine_sentiment: the scores and the result
    scr                 \* the shared WebScraper and the calls in flight on it

pipeVars == <<pc, req, intent, calls, tierOut, result, response, chat>>
rlVars == <<now, request_counts, last_request_time, rl, admits>>
auxVars == <<gen, cls, sent, batch, clar, det, scr>>
vars == <<pc, req, intent, calls, tierOut, result, response, chat,
          now, request_counts, last_request_time, rl, admits, gen, cls, sent, batch, clar,
          det, scr>>

----------------------------------------------------------------------------
(* Bounds of the model *)

MaxNums == 2        \* 6-digit numbers in one question
NumCallers == 3     \* callers concurrently inside _rate_limit_check
RateLimit == 2      \* API_RATE_LIMIT, the configured per-minute budget
MaxTime == 120      \* the clock stops here
MaxAdmits == 5      \* admitted calls recorded

----------------------------------------------------------------------------
(* Python values.  Every value is a record with a tag, so that a pincode    *)
(* that is a string and one that is a list can be told apart.              *)

None == [tag |-> "none"]
Raised == [tag |-> "raise"]
Str(s) == [tag |-> "str", s |-> s]
List(items) == [tag |-> "list", items |-> items]
Dict(keys) == [tag |-> "dict", keys |-> keys]
\* an instance of a pydantic model of models/schemas.py
Model(kind, key, by, generic) ==
    [tag |-> "model", kind |-> kind, key |-> key, by |-> by, generic |-> generic]

\* Python truthiness, as used by `if x:` and `not x`
Truthy(v) ==
    CASE v.tag = "none" -> FALSE
      [] v.tag = "raise" -> FALSE
      [] v.tag = "str" -> v.s # ""
      [] v.tag = "list" -> Len(v.items) > 0
      [] v.tag = "dict" -> v.keys # {}
      [] OTHER -> TRUE

\* x.get(...) works on a dict; a pydantic model has no .get
HasGet(v) == v.tag = "dict"
\* x["name"] works on a dict; a pydantic model is not subscriptable
Subscriptable(v) == v.tag = "dict"

----------------------------------------------------------------------------
(* Static tables *)

Intents == {"survey_mla_name", "survey_mp_name", "opinion_mla", "opinion_mp",
            "ask_scheme_info", "ask_phc_location", "ask_commodity_price",
            "ask_pincode_help", "general_faq", "fallback_handoff"}

\* the intents whose handler runs the three-tier chain
ChainIntents == {"survey_mla_name", "survey_mp_name", "ask_scheme_info",
                 "ask_phc_location", "ask_commodity_price", "ask_pincode_help"}

Languages == {"english", "hindi", "telugu"}

\* pincodes a question can name: one of the mock sample set, one outside it
Pincodes == {"110001", "999999"}
MockPincodeDirectory == {"110001", "560001", "400001"}
MockHealthPincodes == {"110001", "560001", "400001"}
MockSchemeKeys == {"pmay", "jan_aushadhi"}
MockRepresentativeKeys == {"new_delhi"}

\* scheme keywords _extract_entities can put in entities["scheme_name"]
SchemeKeywords == {"pmay", "kisan"}
CommodityKeywords == {"wheat", "rice"}

Tiers == <<"api", "scraping", "mock">>

RECURSIVE SeqsUpTo(_, _)
SeqsUpTo(S, n) ==
    IF n = 0 THEN {<<>>}
    ELSE LET shorter == SeqsUpTo(S, n - 1)
         IN shorter \cup {Append(q, x) : q \in {r \in shorter : Len(r) = n - 1}, x \in S}

\* request.context: the location fields extract_location_info reads
Contexts == {
    [pincode |-> None, district |-> None, state |-> None],
    [pincode |-> None, district |-> Str("new_delhi"), state |-> Str("Delhi")],
    [pincode |-> Str("560001"), district |-> None, state |-> None] }

\* what the external HTTP API answers during this request
ApiOutcomes == {"data", "empty", "error", "timeout"}
\* what the browser driver / scraped page does during this request
ScraperOutcomes == {"data", "empty", "error"}

NoContext == [pincode |-> None, district |-> None, state |-> None]

\* The requests of the model.  A field that the intent's handler never reads
\* is held at one value: _extract_entities looks for a scheme or commodity
\* keyword only under that intent, extract_location_info is called only by the
\* MLA, MP, health and price handlers and reads the first 6-digit number only,
\* and the FAQ and fallback handlers call no external tier.
Base(i, ns, cs) ==
    [ intent : {i}, nums : ns, scheme : {None}, commodity : {None},
      context : cs, language : Languages,
      apiKey : BOOLEAN, apiOut : ApiOutcomes, scrOut : ScraperOutcomes ]

Quiet(i) ==
    [ intent : {i}, nums : {<<>>}, scheme : {None}, commodity : {None},
      context : {NoContext}, language : Languages,
      apiKey : {FALSE}, apiOut : {"empty"}, scrOut : {"empty"} ]

Requests ==
    LET short == SeqsUpTo(Pincodes, 1)
        all == SeqsUpTo(Pincodes, MaxNums)
    IN  Base("survey_mla_name", short, Contexts)
        \cup Base("survey_mp_name", short, Contexts)
        \cup Base("ask_phc_location", short, Contexts)
        \cup { [r EXCEPT !.commodity = c] :
                 r \in Base("ask_commodity_price", short, Contexts),
                 c \in {None} \cup {Str(k) : k \in CommodityKeywords} }
        \cup { [r EXCEPT !.scheme = c] :
                 r \in Base("ask_scheme_info", {<<>>}, {NoContext}),
                 c \in {None} \cup {Str(k) : k \in SchemeKeywords} }
        \cup Base("ask_pincode_help", all, {NoContext})
        \cup Quiet("general_faq") \cup Quiet("fallback_handoff")
        \cup Quiet("opinion_mla") \cup Quiet("opinion_mp")

IdleRequest ==
    [ intent |-> "none", nums |-> <<>>, scheme |-> None, commodity |-> None,
      context |-> NoContext, language |-> "english",
      apiKey |-> FALSE, apiOut |-> "empty", scrOut |-> "empty" ]

----------------------------------------------------------------------------
(* Intent Classifier: the entities the handlers read *)

\* _extract_entities, the "pincode" entry: re.findall gives every 6-digit
\* number; one match is stored as a string, several as the list of matches
ExtractPincode(nums) ==
    IF Len(nums) = 0 THEN None
    ELSE IF Len(nums) = 1 THEN Str(nums[1])
    ELSE List(nums)

\* re.search(r'\b\d{6}\b', question): the first match only
SearchPincode(nums) == IF Len(nums) = 0 THEN None ELSE Str(nums[1])

\* _extract_entities for the request r (detect_intent is called without a
\* context, so nothing is merged in)
ExtractEntities(r) ==
    [ pincode |-> ExtractPincode(r.nums),
      scheme_name |-> IF r.intent = "ask_scheme_info" THEN r.scheme ELSE None,
      commodity_name |-> IF r.intent = "ask_commodity_price" THEN r.commodity ELSE None ]

\* intent.entities.get(key, default)
EntityOr(v, default) == IF v = None THEN Str(default) ELSE v

\* extract_location_info: the context's fields, and the question's first
\* 6-digit number when the context gives no pincode
extract_location_info(r) ==
    LET m == SearchPincode(r.nums)
    IN [ pincode |-> IF m # None /\ ~Truthy(r.context.pincode) THEN m
                     ELSE r.context.pincode,
         district |-> r.context.district,
         state |-> r.context.state ]

----------------------------------------------------------------------------
(* Data Source Chain, tier 1: services/api_client.py *)

\* _make_request: a 200 answer is the JSON body; any other status, a timeout
\* and any other exception all become an {"error": ...} mapping
MakeRequest(out) ==
    CASE out = "data" -> [error |-> FALSE, records |-> TRUE]
      [] out = "empty" -> [error |-> FALSE, records |-> FALSE]
      [] OTHER -> [error |-> TRUE, records |-> FALSE]

\* a pydantic str field rejects a list: the constructor raises
ValidStr(v) == v.tag = "str"

ApiGetMlaInfo(loc) == None
ApiGetMpInfo(loc) == None

ApiGetSchemeInfo(name, r) ==
    LET resp == MakeRequest(r.apiOut)
    IN IF r.apiKey /\ ~resp.error /\ resp.records
       THEN Model("SchemeInfo", name, "api", FALSE)
       ELSE None

ApiGetHealthFacilities(loc, r) ==
    LET resp == MakeRequest(r.apiOut)
        abdm == IF Truthy(loc.pincode) /\ ~resp.error /\ resp.records
                THEN <<Model("HealthFacility", loc.pincode, "api", FALSE)>>
                ELSE <<>>
        datagov == IF r.apiKey /\ Truthy(loc.district) /\ ~resp.error /\ resp.records
                   THEN <<Model("HealthFacility", loc.district, "api", FALSE)>>
                   ELSE <<>>
    IN List(abdm \o datagov)

ApiGetCommodityPrices(commodity, loc, r) ==
    LET resp == MakeRequest(r.apiOut)
    IN IF r.apiKey /\ ~resp.error /\ resp.records
       THEN List(<<Model("CommodityPrice", commodity, "api", FALSE)>>)
       ELSE List(<<>>)

\* PincodeInfo(pincode=pincode, ...) raises for a pincode that is no string;
\* the method's except clause turns that into None
ApiGetPincodeInfo(pincode, r) ==
    LET resp == MakeRequest(r.apiOut)
    IN IF ~resp.error /\ resp.records /\ ValidStr(pincode)
       THEN Model("PincodeInfo", pincode, "api", FALSE)
       ELSE None

----------------------------------------------------------------------------
(* Data Source Chain, tier 2: services/web_scraper.py *)

ContainsPmayOrHousing(name) == name.s \in {"pmay", "PMAY", "housing"}

\* _init_driver or driver.get raising is caught and gives None; once the page
\* is loaded _scrape_pmay_gramin builds its record whether or not the
\* description element was found
ScrapeSchemeInfo(name, r) ==
    IF r.scrOut # "error" /\ ContainsPmayOrHousing(name)
    THEN Model("SchemeInfo", name, "scraping", FALSE)
    ELSE None

ScrapeCommodityPrices(commodity, loc, r) ==
    IF r.scrOut = "data"
    THEN List(<<Model("CommodityPrice", commodity, "scraping", FALSE)>>)
    ELSE List(<<>>)

ScrapeHealthFacilities(loc, r) == List(<<>>)
ScrapeMlaInfo(loc, r) == None
ScrapeMpInfo(loc, r) == None
ScrapePincodeInfo(pincode, r) == None

----------------------------------------------------------------------------
(* The shared WebScraper under concurrent calls.  routers/chat.py builds one
   WebScraper for all requests; self.driver is the one browser every call
   uses.  A call runs without interruption up to an `await asyncio.sleep`,
   where other calls run. *)

NumScrapers == 2    \* calls in flight on the shared scraper

ScrapeMethods == {"scheme", "prices", "mla", "pincode"}

\* what the browser does for one call: "gramin_down" is a PMAY-G page that
\* fails to load while the PMAY-U page loads
MethodOutcomes(m) ==
    CASE m = "scheme" -> ScraperOutcomes \cup {"gramin_down"}
      [] m = "prices" -> ScraperOutcomes
      [] m = "mla" -> {"data", "error"}
      [] OTHER -> {"data"}

\* the positions at which a call is suspended in asyncio.sleep
Suspended == {"gramin_sleep", "urban_sleep", "form_sleep", "search_sleep"}

IdleScrape == [pc |-> "idle", method |-> "none", env |-> "none", out |-> None,
               torn |-> FALSE]

\* what the call returns when no other call is in flight
ScrapeAlone(m, e) ==
    CASE m = "scheme" -> ScrapeSchemeInfo(Str("pmay"), [scrOut |-> e])
      [] m = "prices" -> ScrapeCommodityPrices(Str("wheat"), NoContext, [scrOut |-> e])
      [] m = "mla" -> ScrapeMlaInfo(NoContext, [scrOut |-> e])
      [] OTHER -> ScrapePincodeInfo(Str("110001"), [scrOut |-> e])

\* _cleanup by call c: driver.quit(); self.driver = None (and the session
\* likewise, which no call reads after a sleep).  torn records, for every
\* other call that is suspended, that the browser it left was quit.
Cleanup(s, c) ==
    [s EXCEPT !.driver = "none", !.page = "none",
              !.call = [d \in 1..NumScrapers |->
                          IF d # c /\ s.driver = "live" /\ s.call[d].pc \in Suspended
                          THEN [s.call[d] EXCEPT !.torn = TRUE]
                          ELSE s.call[d]]]

\* `return out` and then `finally: await self._cleanup()`
ReturnScrape(s, c, out) ==
    LET t == Cleanup(s, c)
    IN [t EXCEPT !.call[c].pc = "returned", !.call[c].out = out]

\* the value a method gives when it found nothing or caught an exception
NothingScraped(m) == IF m = "prices" THEN List(<<>>) ELSE None

\* a call up to its first sleep: _init_driver creates the browser only when
\* self.driver is None (and raises when it cannot), then driver.get loads the
\* method's page.  scrape_mla_info and scrape_pincode_info return None
\* without sleeping and clean up at once.
StartScrape(c, m, e) ==
    /\ scr.pc = "run"
    /\ scr.call[c].pc = "idle"
    /\ LET s0 == [scr EXCEPT !.call[c] = [IdleScrape EXCEPT !.method = m, !.env = e]]
           live == [s0 EXCEPT !.driver = "live"]
       IN scr' =
            CASE m = "pincode" -> ReturnScrape(s0, c, None)
              [] s0.driver = "none" /\ e = "error" -> ReturnScrape(s0, c, NothingScraped(m))
              [] m = "mla" -> ReturnScrape(live, c, None)
              [] e = "error" -> ReturnScrape(live, c, NothingScraped(m))
              [] m = "prices" ->
                   [live EXCEPT !.page = "agmarknet", !.call[c].pc = "form_sleep"]
              [] e = "gramin_down" ->
                   [live EXCEPT !.page = "pmay_u", !.call[c].pc = "urban_sleep"]
              [] OTHER ->
                   [live EXCEPT !.page = "pmay_g", !.call[c].pc = "gramin_sleep"]
    /\ UNCHANGED <<pipeVars, rlVars, gen, cls, sent, batch, clar, det>>

\* _scrape_pmay_gramin after its sleep: WebDriverWait(self.driver, 10).until
\* raises AttributeError when self.driver is None, the method returns None,
\* and _scrape_pmay_urban's self.driver.get raises the same; with a browser
\* the record is built whether or not the element is found
ResumeGramin(c) ==
    /\ scr.pc = "run"
    /\ scr.call[c].pc = "gramin_sleep"
    /\ scr' = IF scr.driver = "none"
              THEN ReturnScrape(scr, c, None)
              ELSE ReturnScrape(scr, c, Model("SchemeInfo", Str("pmay"), "scraping", FALSE))
    /\ UNCHANGED <<pipeVars, rlVars, gen, cls, sent, batch, clar, det>>

\* _scrape_pmay_urban after its sleep builds its record without the browser
ResumeUrban(c) ==
    /\ scr.pc = "run"
    /\ scr.call[c].pc = "urban_sleep"
    /\ scr' = ReturnScrape(scr, c, Model("SchemeInfo", Str("pmay"), "scraping", FALSE))
    /\ UNCHANGED <<pipeVars, rlVars, gen, cls, sent, batch, clar, det>>

\* _scrape_agmarknet_prices after its first sleep: the commodity dropdown is
\* waited for on whatever page the browser shows; the search is submitted
\* and the call sleeps again
ResumeForm(c) ==
    /\ scr.pc = "run"
    /\ scr.call[c].pc = "form_sleep"
    /\ scr' = IF scr.driver = "none" \/ scr.page # "agmarknet"
              THEN ReturnScrape(scr, c, List(<<>>))
              ELSE [scr EXCEPT !.call[c].pc = "search_sleep"]
    /\ UNCHANGED <<pipeVars, rlVars, gen, cls, sent, batch, clar, det>>

\* _scrape_agmarknet_prices after its second sleep: the rows of the price
\* table, if the browser still shows it
ResumeSearch(c) ==
    /\ scr.pc = "run"
    /\ scr.call[c].pc = "search_sleep"
    /\ scr' = IF scr.driver = "live" /\ scr.page = "agmarknet"
                 /\ scr.call[c].env = "data"
              THEN ReturnScrape(scr, c,
                       List(<<Model("CommodityPrice", Str("wheat"), "scraping", FALSE)>>))
              ELSE ReturnScrape(scr, c, List(<<>>))
    /\ UNCHANGED <<pipeVars, rlVars, gen, cls, sent, batch, clar, det>>

\* the handler takes the result; the caller can call again
FinishScrape(c) ==
    /\ scr.pc = "run"
    /\ scr.call[c].pc = "returned"
    /\ scr' = [scr EXCEPT !.call[c] = IdleScrape]
    /\ UNCHANGED <<pipeVars, rlVars, gen, cls, sent, batch, clar, det>>

\* WebScraper.__init__: no browser, no call
InitScr ==
    scr = [pc |-> "run", driver |-> "none", page |-> "none",
           call |-> [c \in 1..NumScrapers |-> IdleScrape]]

NextScr ==
    \E c \in 1..NumScrapers :
        \/ \E m \in ScrapeMethods : \E e \in MethodOutcomes(m) : StartScrape(c, m, e)
        \/ ResumeGramin(c)
        \/ ResumeUrban(c)
        \/ ResumeForm(c)
        \/ ResumeSearch(c)
        \/ FinishScrape(c)

----------------------------------------------------------------------------
(* Data Source Chain, tier 3: services/mock_data.py *)

\* `pincode in self.mock_cache[...]` hashes the pincode: a list is unhashable
\* and the lookup raises TypeError
Hashable(v) == v.tag # "list"

MockGetMlaInfo(loc) ==
    IF Truthy(loc.district) /\ loc.district.s \in MockRepresentativeKeys
    THEN Model("PoliticalRepresentative", loc.district, "mock", FALSE)
    ELSE Model("PoliticalRepresentative", loc.district, "mock", TRUE)

MockGetMpInfo(loc) ==
    IF Truthy(loc.district) /\ loc.district.s \in MockRepresentativeKeys
    THEN Model("PoliticalRepresentative", loc.district, "mock", FALSE)
    ELSE Model("PoliticalRepresentative", loc.district, "mock", TRUE)

MockGetSchemeInfo(name) ==
    IF \E k \in MockSchemeKeys : k = name.s \/ (k = "pmay" /\ name.s = "PMAY")
    THEN Model("SchemeInfo", name, "mock", FALSE)
    ELSE Model("SchemeInfo", name, "mock", TRUE)

MockGetHealthFacilities(loc) ==
    IF Truthy(loc.pincode) /\ loc.pincode.s \in MockHealthPincodes
    THEN List(<<Model("HealthFacility", loc.pincode, "mock", FALSE)>>)
    ELSE List(<<Model("HealthFacility", loc.pincode, "mock", TRUE),
                Model("HealthFacility", loc.pincode, "mock", TRUE)>>)

MockGetCommodityPrices(commodity, loc) ==
    IF commodity.s \in {"wheat", "rice", "onion", "potato", "tomato", "dal", "sugar"}
    THEN List(<<Model("CommodityPrice", commodity, "mock", FALSE)>>)
    ELSE List(<<Model("CommodityPrice", commodity, "mock", TRUE)>>)

\* the whole body is inside try/except: the TypeError of an unhashable
\* pincode is logged and None is returned
\* get_pincode_info whose except clause re-raises instead of returning None
MockGetPincodeInfoRaising(pincode) ==
    IF ~Hashable(pincode) \/ ~ValidStr(pincode) THEN Raised
    ELSE IF pincode.s \in MockPincodeDirectory
    THEN Model("PincodeInfo", pincode, "mock", FALSE)
    ELSE Model("PincodeInfo", pincode, "mock", TRUE)

\* the lookup raises for a list, the PincodeInfo constructor for anything that
\* is no string; the except clause turns both into None
MockGetPincodeInfo(pincode) ==
    IF ~Hashable(pincode) \/ ~ValidStr(pincode) THEN None
    ELSE IF pincode.s \in MockPincodeDirectory
    THEN Model("PincodeInfo", pincode, "mock", FALSE)
    ELSE Model("PincodeInfo", pincode, "mock", TRUE)

MockGetGeneralFaq(r) == Dict({"answer", "category", "source"})
MockGetFallbackResponse(r) == Dict({"message", "source", "suggestions"})

----------------------------------------------------------------------------
(* Response Assembler: services/response_generator.py *)

\* self.response_templates: the number of phrasings per language and key
ResponseTemplates(table) ==
    IF table = "english"
    THEN [k \in {"mla_info", "mp_info", "scheme_info", "health_facilities",
                 "commodity_prices", "pincode_info", "general_faq", "fallback"} |-> 3]
    ELSE [k \in {"mla_info", "mp_info", "scheme_info", "health_facilities",
                 "commodity_prices", "fallback"} |-> IF k = "fallback" THEN 2 ELSE 3]

\* self.suggestion_templates
SuggestionTemplates(table) ==
    IF table = "english"
    THEN [k \in {"after_mla_info", "after_scheme_info", "after_health_info", "general"} |->
            CASE k = "after_mla_info" ->
                   <<"Ask about your MP", "Get scheme information", "Find health facilities">>
              [] k = "after_scheme_info" ->
                   <<"Check eligibility", "Find application centers", "Get required documents">>
              [] k = "after_health_info" ->
                   <<"Get directions", "Check services available", "Find contact numbers">>
              [] OTHER ->
                   <<"Ask about government schemes", "Find your representatives",
                     "Check commodity prices">>]
    ELSE [k \in {"after_mla_info", "after_scheme_info", "general"} |->
            CASE k = "after_mla_info" -> <<"hi: ask about MP", "hi: scheme", "hi: health">>
              [] k = "after_scheme_info" -> <<"hi: eligibility", "hi: centers", "hi: documents">>
              [] OTHER -> <<"hi: schemes", "hi: representatives", "hi: prices">>]

\* self.response_templates.get(language, self.response_templates["english"])
TableOf(language) == IF language \in {"english", "hindi"} THEN language ELSE "english"

\* suggestion_templates.get(language, english).get(key, [])
Suggestions(language, key) ==
    LET t == SuggestionTemplates(TableOf(language))
    IN IF key \in DOMAIN t THEN t[key] ELSE <<>>

\* templates[key] raises KeyError when the table has no such key
HasTemplate(language, key) == key \in DOMAIN ResponseTemplates(TableOf(language))

\* the parts a message is put together from
Part(kind, table, key, idx) == [part |-> kind, table |-> table, key |-> key, idx |-> idx]

\* random.choice(templates[key]): choice number k of the list
Template(language, key, k) ==
    LET n == ResponseTemplates(TableOf(language))[key]
    IN Part("template", TableOf(language), key, IF k > n THEN n ELSE k)

\* the canned message of a formatter's else branch: hindi when asked, else english
NotFoundPart(language, key) ==
    Part("notfound", IF language = "hindi" THEN "hindi" ELSE "english", key, 0)

\* _get_mock_disclaimer: disclaimers.get(language, disclaimers["english"])
MockDisclaimer(language) ==
    Part("disclaimer", IF language \in {"english", "hindi"} THEN language ELSE "english",
         "mock", 0)

\* _generate_error_response
GenerateErrorResponse(language) ==
    [ message |-> <<Part("error", IF language \in {"english", "hindi"} THEN language
                                  ELSE "english", "error", 0)>>,
      source |-> "error",
      suggestions |-> <<"Try again later", "Contact local office">>,
      metadata |-> {"error"} ]

NotFoundResponse(language, key, suggestions, metadata) ==
    [ message |-> <<NotFoundPart(language, key)>>,
      source |-> "fallback",
      suggestions |-> suggestions,
      metadata |-> metadata ]

\* _generate_mla_response
GenerateMlaResponse(d, language, k) ==
    IF d.type = "mla_info" /\ Truthy(d.data)
    THEN IF ~HasTemplate(language, "mla_info") \/ ~HasGet(d.data)
         THEN GenerateErrorResponse(language)
         ELSE [ message |-> <<Template(language, "mla_info", k)>>,
                source |-> d.source,
                suggestions |-> Suggestions(language, "after_mla_info"),
                metadata |-> {"representative_type", "constituency"} ]
    ELSE NotFoundResponse(language, "mla",
                          <<"Provide your pincode", "Tell me your district">>, {})

\* _generate_mp_response
GenerateMpResponse(d, language, k) ==
    IF d.type = "mp_info" /\ Truthy(d.data)
    THEN IF ~HasTemplate(language, "mp_info") \/ ~HasGet(d.data)
         THEN GenerateErrorResponse(language)
         ELSE [ message |-> <<Template(language, "mp_info", k)>>,
                source |-> d.source,
                suggestions |-> Suggestions(language, "after_mla_info"),
                metadata |-> {"representative_type", "constituency"} ]
    ELSE NotFoundResponse(language, "mp",
                          <<"Provide your pincode", "Tell me your constituency">>, {})

\* _generate_scheme_response
GenerateSchemeResponse(d, language, k) ==
    IF d.type = "scheme_info" /\ Truthy(d.data)
    THEN IF ~HasTemplate(language, "scheme_info") \/ ~HasGet(d.data)
         THEN GenerateErrorResponse(language)
         ELSE [ message |-> <<Template(language, "scheme_info", k)>>,
                source |-> d.source,
                suggestions |-> Suggestions(language, "after_scheme_info"),
                metadata |-> {"scheme_name", "official_website", "helpline"} ]
    ELSE NotFoundResponse(language, "scheme",
                          <<"Ask about PMAY", "Ask about Jan Aushadhi",
                            "Ask about Ayushman Bharat">>, {})

\* _generate_health_response: a list of facilities, each read with f["name"]
GenerateHealthResponse(d, language, k) ==
    IF d.type = "phc_info" /\ Truthy(d.data) /\ d.data.tag = "list"
    THEN IF ~HasTemplate(language, "health_facilities")
            \/ \E i \in 1..Len(d.data.items) :
                  i <= 3 /\ (~Subscriptable(d.data.items[i])
                             \/ "name" \notin d.data.items[i].keys)
         THEN GenerateErrorResponse(language)
         ELSE [ message |-> <<Template(language, "health_facilities", k)>>
                            \o (IF "phone" \in d.data.items[1].keys
                                THEN <<Part("contact", IF language = "hindi" THEN "hindi"
                                                       ELSE "english", "health", 0)>>
                                ELSE <<>>),
                source |-> d.source,
                suggestions |-> Suggestions(language, "after_health_info"),
                metadata |-> {"facilities_count", "nearest_facility", "emergency_number"} ]
    ELSE NotFoundResponse(language, "health",
                          <<"Provide your pincode", "Ask for district hospital">>,
                          {"emergency_number"})

\* _generate_price_response: a list of prices, each read with price.get(...)
GeneratePriceResponse(d, language, k) ==
    IF d.type = "price_info" /\ Truthy(d.data) /\ d.data.tag = "list"
    THEN IF ~HasTemplate(language, "commodity_prices")
            \/ \E i \in 1..Len(d.data.items) : i <= 3 /\ ~HasGet(d.data.items[i])
         THEN GenerateErrorResponse(language)
         ELSE [ message |-> <<Template(language, "commodity_prices", k)>>,
                source |-> d.source,
                suggestions |-> <<"Check other commodities", "Find nearest mandi",
                                  "Get price trends">>,
                metadata |-> {"commodity", "price_count", "last_updated"} ]
    ELSE NotFoundResponse(language, "price",
                          <<"Specify commodity name", "Provide your location">>, {})

\* _generate_pincode_response
GeneratePincodeResponse(d, language, k) ==
    IF d.type = "pincode_info" /\ Truthy(d.data)
    THEN IF ~HasTemplate(language, "pincode_info") \/ ~HasGet(d.data)
         THEN GenerateErrorResponse(language)
         ELSE [ message |-> <<Template(language, "pincode_info", k)>>,
                source |-> d.source,
                suggestions |-> <<"Find health facilities here",
                                  "Check local representatives", "Get scheme information">>,
                metadata |-> {"pincode", "district", "state"} ]
    ELSE NotFoundResponse(language, "pincode",
                          <<"Verify pincode", "Try with district name">>, {})

\* _generate_faq_response
GenerateFaqResponse(d, language, k) ==
    IF d.type = "faq" /\ Truthy(d.data)
    THEN IF ~HasTemplate(language, "general_faq") \/ ~HasGet(d.data)
         THEN GenerateErrorResponse(language)
         ELSE [ message |-> <<Template(language, "general_faq", k)>>,
                source |-> d.source,
                suggestions |-> Suggestions(language, "general"),
                metadata |-> {"category", "source"} ]
    ELSE NotFoundResponse(language, "faq",
                          <<"Ask about specific schemes", "Provide more details",
                            "Contact local office">>, {})

\* _generate_fallback_response: templates.get("fallback", [...]) never raises
GenerateFallbackResponse(d, language, k) ==
    [ message |-> <<Template(language, "fallback", k)>>,
      source |-> "fallback",
      suggestions |-> Suggestions(language, "general"),
      metadata |-> {"fallback_reason"} ]

\* the formatter generate_response picks for the intent name
Formatter(name, d, language, k) ==
    CASE name \in {"survey_mla_name", "opinion_mla"} -> GenerateMlaResponse(d, language, k)
      [] name \in {"survey_mp_name", "opinion_mp"} -> GenerateMpResponse(d, language, k)
      [] name = "ask_scheme_info" -> GenerateSchemeResponse(d, language, k)
      [] name = "ask_phc_location" -> GenerateHealthResponse(d, language, k)
      [] name = "ask_commodity_price" -> GeneratePriceResponse(d, language, k)
      [] name = "ask_pincode_help" -> GeneratePincodeResponse(d, language, k)
      [] name = "general_faq" -> GenerateFaqResponse(d, language, k)
      [] OTHER -> GenerateFallbackResponse(d, language, k)

\* the disclaimer is appended when the formatter's response says source "mock"
AddDisclaimer(rd, language) ==
    IF rd.source = "mock"
    THEN [rd EXCEPT !.message = Append(@, MockDisclaimer(language))]
    ELSE rd

\* generate_response
GenerateResponse(name, d, language, k) ==
    AddDisclaimer(Formatter(name, d, language, k), language)

----------------------------------------------------------------------------
(* The text a template's placeholders are filled with *)

\* the named placeholders of choice idx of templates[key] in a table
TemplatePlaceholders(table, key, idx) ==
    CASE key = "mla_info" ->
           IF idx = 1 THEN {"name", "constituency", "contact"}
           ELSE IF idx = 2 THEN {"name", "address"}
           ELSE IF table = "english" THEN {"name", "constituency", "contact"}
           ELSE {"name", "constituency"}
      [] key = "mp_info" ->
           IF idx = 1 THEN {"name", "constituency", "contact"}
           ELSE IF idx = 2 THEN {"name", "contact"}
           ELSE {"name", "constituency"}
      [] key = "scheme_info" ->
           IF idx = 1 THEN {"scheme_name", "benefits", "process"}
           ELSE IF idx = 2 THEN {"scheme_name", "description", "eligibility"}
           ELSE {"scheme_name", "benefits", "documents"}
      [] key = "health_facilities" ->
           IF idx = 1 THEN {"count", "facilities"}
           ELSE IF idx = 2 THEN {"facilities", "nearest"}
           ELSE {"facilities"}
      [] key = "commodity_prices" ->
           IF idx = 1 THEN {"commodity", "prices", "date"} ELSE {"commodity", "prices"}
      [] key = "pincode_info" ->
           IF idx = 1 THEN {"pincode", "district", "state", "post_office"}
           ELSE IF idx = 2 THEN {"pincode", "district", "state"}
           ELSE {"pincode", "district", "state", "region"}
      [] key = "general_faq" ->
           IF idx = 3 THEN {"answer", "website"} ELSE {"answer"}
      [] OTHER -> {}

\* the keyword arguments of template.format(...): the record key an argument
\* is read from and the text it becomes when the record has no such key
\* (", ".join([]) and .get(key, "") are the empty string; an argument that is
\* computed, not read from one key, has the text it always has)
FormatArguments(key) ==
    LET Arg(field, default) == [field |-> field, default |-> default]
    IN CASE key \in {"mla_info", "mp_info"} ->
              [ph \in {"name", "constituency", "contact", "address"} |->
                 CASE ph = "name" -> Arg("name", "Unknown")
                   [] ph = "constituency" -> Arg("constituency", "Unknown")
                   [] ph = "contact" -> Arg("contact_info", "Not available")
                   [] OTHER -> Arg("office_address", "Not available")]
         [] key = "scheme_info" ->
              [ph \in {"scheme_name", "description", "benefits", "eligibility",
                       "documents", "process"} |->
                 CASE ph = "scheme_name" -> Arg("scheme_name", "Government Scheme")
                   [] ph = "description" -> Arg("description", "")
                   [] ph = "benefits" -> Arg("benefits", "")
                   [] ph = "eligibility" -> Arg("eligibility", "")
                   [] ph = "documents" -> Arg("required_documents", "")
                   [] OTHER -> Arg("application_process", "Visit local office")]
         [] key = "health_facilities" ->
              [ph \in {"count", "facilities", "nearest"} |->
                 IF ph = "count" THEN Arg("len", "1") ELSE Arg("name", "KeyError")]
         [] key = "commodity_prices" ->
              [ph \in {"commodity", "prices", "date"} |->
                 CASE ph = "commodity" -> Arg("commodity", "commodity")
                   [] ph = "prices" -> Arg("market_name", "Unknown Market: 0/kg")
                   [] OTHER -> Arg("date", "today")]
         [] key = "pincode_info" ->
              [ph \in {"pincode", "district", "state", "post_office", "region"} |->
                 IF ph = "pincode" THEN Arg("pincode", "") ELSE Arg(ph, "Unknown")]
         [] OTHER ->
              [ph \in {"answer", "website"} |->
                 IF ph = "answer" THEN Arg("answer", "") ELSE Arg("site", "india.gov.in")]

\* the text of every placeholder of the template a message part was rendered
\* from; a key the record has renders as its value
Fills(part, data) ==
    LET keys == IF data.tag = "list" THEN data.items[1].keys ELSE data.keys
        args == FormatArguments(part.key)
    IN [ph \in TemplatePlaceholders(part.table, part.key, part.idx) |->
          IF args[ph].field \in keys THEN "value" ELSE args[ph].default]

\* the placeholder texts of a response: those of its template when the
\* response is a data-bearing one, none otherwise
FillsOf(out, raw) ==
    IF /\ ~("tag" \in DOMAIN out)
       /\ out.source \notin {"error", "fallback"}
       /\ out.message[1].part = "template"
    THEN Fills(out.message[1], raw.data)
    ELSE [ph \in {} |-> ""]

----------------------------------------------------------------------------
(* generate_response as a function of arbitrary arguments *)

\* a language code outside the supported set
UnsupportedLanguages == {"tamil"}
AnyLanguages == Languages \cup UnsupportedLanguages

\* the `data` argument: None, a list, or a mapping holding some of the keys
\* type, data, source
RawResult(shape, has, type, data, source) ==
    [shape |-> shape, has |-> has, type |-> type, data |-> data, source |-> source]

\* the result type the formatter of an intent name accepts
FormatterType(name) ==
    CASE name \in {"survey_mla_name", "opinion_mla"} -> "mla_info"
      [] name \in {"survey_mp_name", "opinion_mp"} -> "mp_info"
      [] name = "ask_scheme_info" -> "scheme_info"
      [] name = "ask_phc_location" -> "phc_info"
      [] name = "ask_commodity_price" -> "price_info"
      [] name = "ask_pincode_help" -> "pincode_info"
      [] name = "general_faq" -> "faq"
      [] OTHER -> "fallback"

\* a formatter reads data["type"], then data["data"] when the type is its
\* own, then data["source"] when it builds the data-bearing answer: a missing
\* key raises KeyError inside the formatter (the fallback formatter reads none)
FormatterKeyError(name, raw) ==
    /\ FormatterType(name) # "fallback"
    /\ \/ "type" \notin raw.has
       \/ /\ raw.type = FormatterType(name)
          /\ \/ "data" \notin raw.has
             \/ /\ "source" \notin raw.has
                /\ Truthy(raw.data)
                /\ FormatterType(name) \in {"phc_info", "price_info"}
                       => raw.data.tag = "list"

\* the try block of generate_response: data.get("source", ...) and
\* intent.name raise on None; a formatter's own except clause answers with
\* the error response
GenerateResponseBody(name, raw, language, k) ==
    IF raw.shape # "dict" \/ name = "null" THEN Raised
    ELSE IF FormatterKeyError(name, raw) THEN GenerateErrorResponse(language)
    ELSE GenerateResponse(name, [type |-> raw.type, data |-> raw.data,
                                 source |-> raw.source], language, k)

IsRaised(v) == "tag" \in DOMAIN v /\ v.tag = "raise"

\* a generate_response without its except clause
Uncaught(v, language) == v

\* `except Exception: return await self._generate_error_response(language)`
Caught(v, language) == IF IsRaised(v) THEN GenerateErrorResponse(language) ELSE v

generate_response(name, raw, language, k) ==
    Caught(GenerateResponseBody(name, raw, language, k), language)

\* the call returns
GenerateStep ==
    /\ gen.pc = "call"
    /\ \E k \in 1..3 :
         LET out == generate_response(gen.name, gen.raw, gen.language, k)
         IN gen' = [gen EXCEPT !.pc = "returned", !.k = k, !.out = out,
                               !.fills = FillsOf(out, gen.raw)]
    /\ UNCHANGED <<pipeVars, rlVars, cls, sent, batch, clar, det, scr>>

\* the arguments of a call.  Intent names: the classifier's, one it never
\* returns, and "null" for an intent argument that is None.  Data: None, a
\* list, or a mapping with some of its keys and a sample record under data.
InitGen ==
    LET SampleRecords ==
            { None, Str("text"), Dict({}), Dict({"name"}),
              Model("PincodeInfo", Str("110001"), "mock", FALSE),
              List(<<>>), List(<<Dict({"name", "phone"})>>), List(<<Dict({"phone"})>>),
              List(<<Model("HealthFacility", Str("110001"), "mock", TRUE)>>) }
        GenIntents == Intents \cup {"unknown_intent", "null"}
        RawResults(n) ==
            {RawResult("none", {}, "none", None, "none"),
             RawResult("list", {}, "none", None, "none")}
            \cup {RawResult("dict", h, t, d, src) :
                     h \in SUBSET {"type", "data", "source"},
                     t \in {FormatterType(n), "error"},
                     d \in SampleRecords, src \in {"api", "mock"}}
    IN \E n \in GenIntents, l \in AnyLanguages :
         \E r \in RawResults(n) :
            gen = [pc |-> "call", name |-> n, raw |-> r, language |-> l,
                   k |-> 0, out |-> None, fills |-> <<>>]

\* a call with a record of the formatter's own type holding any of the keys
\* the formatter reads (and one it does not read, so that a record missing
\* all of them is still a present record)
InitFill ==
    LET Fields(n) ==
            CASE n \in {"survey_mla_name", "survey_mp_name"} ->
                   {"name", "constituency", "contact_info", "office_address"}
              [] n = "ask_scheme_info" ->
                   {"scheme_name", "description", "benefits", "eligibility",
                    "required_documents", "application_process"}
              [] n = "ask_phc_location" -> {"name", "phone"}
              [] n = "ask_commodity_price" ->
                   {"commodity", "market_name", "price_per_unit", "unit", "date"}
              [] n = "ask_pincode_help" ->
                   {"pincode", "district", "state", "post_office", "region"}
              [] OTHER -> {"answer"}
    IN \E n \in {"survey_mla_name", "survey_mp_name", "ask_scheme_info",
                 "ask_phc_location", "ask_commodity_price", "ask_pincode_help",
                 "general_faq"},
          l \in Languages, src \in {"api", "mock"} :
         \E keys \in (SUBSET (Fields(n) \cup {"id"})) \ {{}} :
            gen = [pc |-> "call", name |-> n,
                   raw |-> RawResult("dict", {"type", "data", "source"},
                                     FormatterType(n),
                                     IF n \in {"ask_phc_location", "ask_commodity_price"}
                                     THEN List(<<Dict(keys)>>) ELSE Dict(keys),
                                     src),
                   language |-> l, k |-> 0, out |-> None, fills |-> <<>>]

----------------------------------------------------------------------------
(* Intent classifier: services/intent_detector.py *)

MaxTokens == 3      \* words (or fixed phrases) in one question

\* self.intent_patterns, in declaration order
IntentOrder ==
    <<"survey_mla_name", "survey_mp_name", "opinion_mla", "opinion_mp",
      "ask_scheme_info", "ask_phc_location", "ask_commodity_price",
      "ask_pincode_help", "general_faq", "fallback_handoff">>

\* the words questions are made of; a question is its words joined by blanks
Vocabulary ==
    {"mla", "mp", "who is", "opinion", "scheme", "hospital", "find", "price",
     "wheat", "pincode", "help", "hello"}

\* intent_patterns[i]["keywords"]; "hi-..." stands for a Devanagari keyword
Keywords(i) ==
    CASE i = "survey_mla_name" ->
           {"mla", "hi-vidhayak", "member legislative assembly", "local representative",
            "assembly member"}
      [] i = "survey_mp_name" ->
           {"mp", "hi-sansad", "member parliament", "parliament member", "lok sabha"}
      [] i \in {"opinion_mla", "opinion_mp"} ->
           {"opinion", "feedback", "review", "satisfaction", "performance", "work", "hi-rai"}
      [] i = "ask_scheme_info" ->
           {"scheme", "yojana", "hi-yojana", "pmay", "housing", "awas", "hi-awas",
            "benefit", "subsidy"}
      [] i = "ask_phc_location" ->
           {"hospital", "health", "phc", "doctor", "medical", "clinic", "hi-aspatal",
            "hi-swasthya"}
      [] i = "ask_commodity_price" ->
           {"price", "rate", "cost", "mandi", "market", "wheat", "rice", "dal",
            "hi-keemat", "hi-daam", "hi-mandi"}
      [] i = "ask_pincode_help" ->
           {"pincode", "postal code", "zip code", "pin", "hi-pin code", "district",
            "village"}
      [] i = "general_faq" ->
           {"how to", "apply", "documents", "process", "procedure", "hi-kaise",
            "hi-aavedan", "hi-dastavez"}
      [] OTHER ->
           {"help", "support", "contact", "complaint", "problem", "hi-madad",
            "hi-sahayata"}

\* the keywords and pattern alternatives that occur inside a word of the
\* vocabulary (`keyword in text` is a substring test)
Substrings(w) ==
    CASE w = "opinion" -> {"opinion", "pin"}
      [] w = "price" -> {"price", "rice"}
      [] w = "pincode" -> {"pincode", "pin"}
      [] OTHER -> {w}

\* the alternatives a word begins with (\b before the group) and ends with
\* (\b after the group)
StartsWith(w) == IF w = "pincode" THEN {"pincode", "pin"} ELSE {w}
EndsWith(w) == IF w = "price" THEN {"price", "rice"} ELSE {w}

Pair(first, second) == [single |-> FALSE, first |-> first, second |-> second]
Single(alts) == [single |-> TRUE, first |-> alts, second |-> {}]

\* intent_patterns[i]["patterns"]: \b(first).*(second)\b or \b(alts)\b, with
\* the ASCII alternatives of each group
Patterns(i) ==
    CASE i = "survey_mla_name" ->
           << Pair({"who is", "what is", "tell me about", "find", "search"},
                   {"mla", "member legislative assembly"}),
              Pair({"mla"}, {"name", "information", "details", "contact"}),
              Pair({"my", "our", "local"}, {"mla", "representative"}) >>
      [] i = "survey_mp_name" ->
           << Pair({"who is", "what is", "tell me about", "find", "search"},
                   {"mp", "member parliament"}),
              Pair({"mp"}, {"name", "information", "details", "contact"}),
              Pair({"my", "our", "local"}, {"mp", "parliament member"}) >>
      [] i = "opinion_mla" ->
           << Pair({"opinion", "feedback", "review", "satisfaction"}, {"mla"}),
              Pair({"mla"}, {"work", "performance", "good", "bad", "excellent", "poor"}),
              Pair({"how is", "what do you think"}, {"mla"}) >>
      [] i = "opinion_mp" ->
           << Pair({"opinion", "feedback", "review", "satisfaction"}, {"mp"}),
              Pair({"mp"}, {"work", "performance", "good", "bad", "excellent", "poor"}),
              Pair({"how is", "what do you think"}, {"mp"}) >>
      [] i = "ask_scheme_info" ->
           << Pair({"what is", "tell me about", "information about", "details of"},
                   {"scheme", "yojana"}),
              Single({"pmay", "pradhan mantri awas yojana", "housing scheme"}),
              Single({"government scheme", "benefit", "subsidy"}),
              Pair({"how to apply", "eligibility", "documents required"},
                   {"scheme", "yojana"}) >>
      [] i = "ask_phc_location" ->
           << Pair({"find", "search", "locate", "where is"},
                   {"hospital", "health center", "phc", "clinic"}),
              Pair({"nearest", "nearby", "closest"},
                   {"hospital", "health", "medical", "doctor"}),
              Single({"health facility", "medical facility", "primary health center"}),
              Single({"emergency", "ambulance", "108"}) >>
      [] i = "ask_commodity_price" ->
           << Pair({"price", "rate", "cost"}, {"wheat", "rice", "dal", "onion", "potato"}),
              Pair({"mandi", "market"}, {"price", "rate"}),
              Pair({"current", "today", "latest"}, {"price", "rate"}),
              Pair({"commodity", "crop"}, {"price", "market"}) >>
      [] i = "ask_pincode_help" ->
           << Pair({"pincode", "postal code", "pin code"}, {"information", "details", "find"}),
              Pair({"which district", "what district"}, {"pincode", "pin"}),
              Pair({"village", "district", "state"}, {"pincode", "pin code"}),
              Pair({"six digits"}, {"information", "details", "location"}) >>
      [] i = "general_faq" ->
           << Pair({"how to"}, {"apply", "register", "get"}),
              Pair({"documents", "papers"}, {"required", "needed"}),
              Single({"process", "procedure", "steps"}),
              Single({"ration card", "voter id", "pan card", "aadhaar"}) >>
      [] OTHER ->
           << Single({"help", "support", "assistance"}),
              Single({"complaint", "problem", "issue"}),
              Single({"contact", "call", "phone"}) >>

\* a float that is the ratio of two integers
Frac(n, d) == [num |-> n, den |-> d]
GreaterOrEqual(a, b) == a.num * b.den >= b.num * a.den
Greater(a, b) == a.num * b.den > b.num * a.den

WordsOf(q) == {q[j] : j \in 1..Len(q)}

\* the keywords of intent i that occur in the question
KeywordMatches(i, q) ==
    Cardinality(Keywords(i) \cap UNION {Substrings(w) : w \in WordsOf(q)})

\* re.search(pattern, text): the first group at some word, the second group
\* at a later word
MatchesPattern(p, q) ==
    IF p.single
    THEN \E j \in 1..Len(q) : q[j] \in p.first
    ELSE \E j, k \in 1..Len(q) :
            /\ j < k
            /\ StartsWith(q[j]) \cap p.first # {}
            /\ EndsWith(q[k]) \cap p.second # {}

PatternMatches(i, q) ==
    Cardinality({n \in 1..Len(Patterns(i)) : MatchesPattern(Patterns(i)[n], q)})

\* _calculate_intent_score: 0.6 * kw/len(keywords) + 0.4 * pm/len(patterns),
\* capped at 1.0
CalculateIntentScore(i, q) ==
    LET nk == Cardinality(Keywords(i))
        np == Len(Patterns(i))
        score == Frac(6 * KeywordMatches(i, q) * np + 4 * PatternMatches(i, q) * nk,
                      10 * nk * np)
    IN IF Greater(score, Frac(1, 1)) THEN Frac(1, 1) ELSE score

\* max(intent_scores, key=intent_scores.get) over the intents that scored
\* above 0, in declaration order: a later intent replaces the best so far only
\* when it is greater
RECURSIVE BestIntent(_, _, _)
BestIntent(q, n, best) ==
    IF n > Len(IntentOrder) THEN best
    ELSE LET i == IntentOrder[n]
             score == CalculateIntentScore(i, q)
         IN IF score.num > 0
               /\ (best = "none" \/ Greater(score, CalculateIntentScore(best, q)))
            THEN BestIntent(q, n + 1, i)
            ELSE BestIntent(q, n + 1, best)

\* the keys _extract_entities fills for a question of the vocabulary
ExtractEntityKeys(q, i) ==
    (IF "wheat" \in WordsOf(q) THEN {"commodity"} ELSE {})
    \cup (IF i = "ask_commodity_price"
             /\ \E w \in WordsOf(q) : Substrings(w) \cap {"wheat", "rice"} # {}
          THEN {"commodity_name"} ELSE {})
    \cup (IF i = "ask_phc_location" /\ "hospital" \in WordsOf(q)
          THEN {"facility_type"} ELSE {})

IntentOf(name, confidence, entities) ==
    [name |-> name, confidence |-> confidence, entities |-> entities]

\* the text argument: a string made of words, or a value that is no string
TextOf(q) == [str |-> TRUE, words |-> q]
NotAString == [str |-> FALSE, words |-> <<>>]

\* the try block of detect_intent: text.lower() raises on a non-string
DetectIntentBody(text) ==
    IF ~text.str THEN Raised
    ELSE LET best == BestIntent(text.words, 1, "none")
         IN IF best = "none"
            THEN IntentOf("fallback_handoff", Frac(1, 10), {})
            ELSE IntentOf(best, CalculateIntentScore(best, text.words),
                          ExtractEntityKeys(text.words, best))

\* a detect_intent without its except clause
IntentUncaught(v) == v

\* `except Exception: return Intent(name="fallback_handoff", confidence=0.0, ...)`
IntentCaught(v) == IF IsRaised(v) THEN IntentOf("fallback_handoff", Frac(0, 1), {}) ELSE v

detect_intent(text) == IntentCaught(DetectIntentBody(text))

ClassifyStep ==
    /\ cls.pc = "call"
    /\ cls' = [cls EXCEPT !.pc = "returned", !.out = detect_intent(cls.text)]
    /\ UNCHANGED <<pipeVars, rlVars, gen, sent, batch, clar, det, scr>>

InitCls ==
    \E t \in {TextOf(q) : q \in SeqsUpTo(Vocabulary, MaxTokens)} \cup {NotAString} :
        cls = [pc |-> "call", text |-> t, out |-> None]

\* generate_clarification_question

MaxMissing == 2     \* missing entities handed to one call

\* the entities a clarification can be asked for; facility_type has no question
EntityNames ==
    {"location", "pincode", "commodity_name", "representative_name", "scheme_name",
     "facility_type"}
QuestionEntities == EntityNames \ {"facility_type"}
QuestionLanguages == {"english", "hindi"}

\* the returned string: a prompt of the questions table (its language and
\* entity) or one of the fixed english sentences
generate_clarification_question(intent_name, missing_entities, language) ==
    LET \* questions.get(language, questions["english"])
        lang_questions == IF language \in QuestionLanguages THEN language ELSE "english"
    IN IF missing_entities # <<>>
       THEN IF missing_entities[1] \in QuestionEntities
            THEN [language |-> lang_questions, text |-> missing_entities[1]]
            ELSE [language |-> "english",
                  text |-> "Could you please provide more information?"]
       ELSE [language |-> "english", text |-> "How can I help you further?"]

ClarifyStep ==
    /\ clar.pc = "call"
    /\ clar' = [clar EXCEPT
                  !.pc = "returned",
                  !.out = generate_clarification_question(clar.intent_name,
                                                          clar.missing_entities,
                                                          clar.language)]
    /\ UNCHANGED <<pipeVars, rlVars, gen, cls, sent, batch, det, scr>>

InitClar ==
    \E i \in Intents, m \in SeqsUpTo(EntityNames, MaxMissing), l \in AnyLanguages :
        clar = [pc |-> "call", intent_name |-> i, missing_entities |-> m,
                language |-> l, out |-> None]

----------------------------------------------------------------------------
(* Sentiment scorer: services/sentiment_analyzer.py *)

MaxShort == 2       \* tokens in a text over the whole token alphabet
MaxWords == 5       \* tokens in an english text over the core alphabet

NegationWindow == 3       \* range(max(0, i-3), i)
IntensifierWindow == 2    \* range(max(0, i-2), i)

SentimentTypes == {"positive", "negative", "neutral"}

\* Tokens a text is made of.  "hi:..." and "te:..." stand for Devanagari and
\* Telugu words, written here by their romanisation:
\*   hi:khush (lexicon, positive), hi:galat (negative), hi:theek (neutral),
\*   hi:nahin (negator), hi:bahut (intensifier), te:manchi (positive).
CoreTokens == {"good", "bad", "not", "work"}
Tokens ==
    CoreTokens \cup
    {"okay", "very", "Good", "(good)", "good.", "service", "unavailable",
     "hi:khush", "hi:galat", "hi:theek", "hi:nahin", "hi:bahut", "te:manchi"}

\* sentiment_lexicons: the english lists in full; of the hindi and telugu
\* lists the single words that a text over Tokens can spell
Lexicon(language, type) ==
    CASE language = "english" /\ type = "positive" ->
           {"good", "great", "excellent", "amazing", "wonderful", "fantastic", "awesome",
            "helpful", "useful", "effective", "satisfied", "happy", "pleased", "impressed",
            "outstanding", "brilliant", "superb", "marvelous", "terrific", "fabulous",
            "appreciate", "grateful", "thankful", "commend", "praise", "recommend",
            "love", "like", "enjoy", "admire", "respect", "support", "approve"}
      [] language = "english" /\ type = "negative" ->
           {"bad", "terrible", "awful", "horrible", "disgusting", "pathetic", "useless",
            "disappointed", "frustrated", "angry", "upset", "annoyed", "irritated",
            "dissatisfied", "unhappy", "displeased", "concerned", "worried", "troubled",
            "hate", "dislike", "despise", "condemn", "criticize", "complain", "oppose",
            "poor", "worst", "failure", "problem", "issue", "corrupt", "incompetent"}
      [] language = "english" /\ type = "neutral" ->
           {"okay", "fine", "average", "normal", "standard", "typical", "regular",
            "moderate", "fair", "reasonable", "acceptable", "adequate", "sufficient"}
      [] language = "hindi" /\ type = "positive" -> {"hi:khush"}
      [] language = "hindi" /\ type = "negative" -> {"hi:galat"}
      [] language = "hindi" /\ type = "neutral" -> {"hi:theek"}
      [] language = "telugu" /\ type = "positive" -> {"te:manchi"}
      [] OTHER -> {}

Intensifiers(language) ==
    CASE language = "english" ->
           {"very", "extremely", "really", "quite", "absolutely", "completely", "totally"}
      [] language = "hindi" -> {"hi:bahut"}
      [] OTHER -> {}

Negators(language) ==
    CASE language = "english" ->
           {"not", "no", "never", "nothing", "nobody", "nowhere", "neither", "nor"}
      [] language = "hindi" -> {"hi:nahin"}
      [] OTHER -> {}

\* context_patterns, every phrase as its sequence of words
ContextPatterns(type) ==
    IF type = "positive"
    THEN {<<"doing", "good", "work">>, <<"working", "well">>, <<"effective", "work">>,
          <<"good", "job">>, <<"good", "service">>, <<"helpful", "service">>,
          <<"quick", "response">>, <<"efficient">>, <<"easily", "accessible">>,
          <<"available">>, <<"reachable">>, <<"approachable">>}
    ELSE {<<"not", "working">>, <<"poor", "work">>, <<"ineffective">>, <<"bad", "job">>,
          <<"poor", "service">>, <<"slow", "response">>, <<"unhelpful">>,
          <<"inefficient">>, <<"not", "accessible">>, <<"unavailable">>,
          <<"unreachable">>, <<"difficult", "to", "reach">>}

\* the text argument: a string of tokens (spaces: with blanks around or
\* between them beyond single spaces), None, or a number
SentText(words, spaces) == [kind |-> "str", words |-> words, spaces |-> spaces]
\* a text that is no string: kind "none" for None, "int" for a number
NonString(kind) == [kind |-> kind, words |-> <<>>, spaces |-> FALSE]

\* a text that is never taken for blank
NeverBlank(text) == FALSE

\* `not text.strip()`
Blank(text) == text.words = <<>>

\* _preprocess_text on one token: lower(), then re.sub(r'[^\w\s\.\!\?\,\-]', '', .)
\* \w matches no combining mark, so the vowel signs and the anusvara of a
\* Devanagari or Telugu word are removed with the special characters
PreprocessToken(w) ==
    CASE w = "Good" -> "good"
      [] w = "(good)" -> "good"
      [] w = "hi:khush" -> "hi:khsh"
      [] w = "hi:theek" -> "hi:thk"
      [] w = "hi:nahin" -> "hi:nh"
      [] w = "hi:bahut" -> "hi:bht"
      [] w = "te:manchi" -> "te:mnch"
      [] OTHER -> w

\* _preprocess_text: also collapses the whitespace
PreprocessText(text) ==
    SentText([j \in DOMAIN text.words |-> PreprocessToken(text.words[j])], FALSE)

\* `pattern in text`: "unavailable" holds "available" too
PhraseIn(phrase, words) ==
    IF Len(phrase) = 1
    THEN \E j \in 1..Len(words) :
            phrase[1] = words[j] \/ (phrase[1] = "available" /\ words[j] = "unavailable")
    ELSE \E j \in 1..(Len(words) - Len(phrase) + 1) :
            \A k \in 1..Len(phrase) : words[j + k - 1] = phrase[k]

\* a scan that ignores the negators
NeverNegated(words, i, negators) == FALSE

\* is_negated: a negator among the NegationWindow words before word i
IsNegated(words, i, negators) ==
    \E j \in 1..Len(words) :
        j < i /\ j >= i - NegationWindow /\ words[j] \in negators

\* dict.get(language, ...["english"])
LanguageStrict(language) == language
LanguageOrEnglish(language) == IF language \in Languages THEN language ELSE "english"

\* what word i adds to each bucket of sentiment_matches
Contribution(words, i, language) ==
    LET lang == LanguageOrEnglish(language)
        is_negated == IsNegated(words, i, Negators(lang))
        \* intensity_multiplier, in halves: 1.0 is 2, 1.5 is 3
        weight == IF \E j \in 1..Len(words) :
                        /\ j < i /\ j >= i - IntensifierWindow
                        /\ words[j] \in Intensifiers(lang)
                  THEN 3 ELSE 2
        \* the bucket a word of lexicon class t is added to
        bucket(t) == IF ~is_negated THEN t
                     ELSE CASE t = "positive" -> "negative"
                            [] t = "negative" -> "positive"
                            [] OTHER -> "neutral"
    IN [b \in SentimentTypes |->
          weight * Cardinality({t \in SentimentTypes :
                                   words[i] \in Lexicon(lang, t) /\ bucket(t) = b})]

RECURSIVE SumBucket(_, _, _)
SumBucket(contrib, b, n) ==
    IF n = 0 THEN 0 ELSE contrib[n][b] + SumBucket(contrib, b, n - 1)

\* _analyze_contextual_sentiment: positive and negative phrase counts
PatternMatchCount(type, words) ==
    Cardinality({p \in ContextPatterns(type) : PhraseIn(p, words)})

\* a combination that adds the two scores without halving the sum
Summed(ld, cd) == ld * cd

\* (scores[t] + context_scores[t]) / 2, over the denominators of the two
Averaged(ld, cd) == 2 * ld * cd

\* _calculate_sentiment_scores: the three scores over one denominator
CalculateSentimentScores(words, language) ==
    LET contrib == [i \in 1..Len(words) |-> Contribution(words, i, language)]
        m == [b \in SentimentTypes |-> SumBucket(contrib, b, Len(words))]
        total == m["positive"] + m["negative"] + m["neutral"]
        ld == IF total > 0 THEN total ELSE 1
        pp == PatternMatchCount("positive", words)
        pn == PatternMatchCount("negative", words)
        cd == IF pp + pn > 0 THEN pp + pn ELSE 1
        \* context_scores["neutral"] = 1.0 - (positive + negative)
        c == [b \in SentimentTypes |->
                CASE b = "positive" -> pp [] b = "negative" -> pn [] OTHER -> 0]
    IN IF Len(words) = 0
       THEN [positive |-> 0, negative |-> 0, neutral |-> 0, den |-> 1]
       ELSE [positive |-> m["positive"] * cd + c["positive"] * ld,
             negative |-> m["negative"] * cd + c["negative"] * ld,
             neutral |-> m["neutral"] * cd + c["neutral"] * ld,
             den |-> Averaged(ld, cd)]

Sentiment(label, score, confidence) ==
    [label |-> label, score |-> score, confidence |-> confidence]
NeutralSentiment == Sentiment("neutral", Frac(0, 1), Frac(0, 1))

\* a choice that tries the negative bucket before the positive one
NegativeFirst(scores, max_score) ==
    IF scores.negative = max_score THEN "negative"
    ELSE IF scores.positive = max_score THEN "positive"
    ELSE "neutral"

\* the if/elif/else over the buckets that equal the maximum
LabelOfMaximum(scores, max_score) ==
    IF scores.positive = max_score THEN "positive"
    ELSE IF scores.negative = max_score THEN "negative"
    ELSE "neutral"

\* _determine_sentiment: the label and the confidence
DetermineSentiment(scores) ==
    LET values == {scores.positive, scores.negative, scores.neutral}
        max_score == CHOOSE v \in values : \A w \in values : v >= w
        min_score == CHOOSE v \in values : \A w \in values : v <= w
        \* sorted(scores.values(), reverse=True)[1]
        second == scores.positive + scores.negative + scores.neutral
                  - max_score - min_score
        diff == max_score - second
        confidence == IF diff < 0 THEN Frac(0, 1)
                      ELSE IF diff > scores.den THEN Frac(1, 1)
                      ELSE Frac(diff, scores.den)
    IN IF 10 * max_score < scores.den
       THEN [label |-> "neutral", confidence |-> Frac(max_score, scores.den)]
       ELSE [label |-> LabelOfMaximum(scores, max_score), confidence |-> confidence]

\* a final score that forgets the sign of a negative sentiment
UnsignedScore(label, scores) ==
    CASE label = "positive" -> Frac(scores.positive, scores.den)
      [] label = "negative" -> Frac(scores.negative, scores.den)
      [] OTHER -> Frac(0, 1)

\* the final score: +positive, -negative, or 0.0
FinalScore(label, scores) ==
    CASE label = "positive" -> Frac(scores.positive, scores.den)
      [] label = "negative" -> Frac(0 - scores.negative, scores.den)
      [] OTHER -> Frac(0, 1)

\* what one call did: its Sentiment, the helpers it ran, and what each word
\* added to sentiment_matches
Analysis(sentiment, steps, contrib, scores) ==
    [sentiment |-> sentiment, steps |-> steps, contrib |-> contrib, scores |-> scores]

NoScores == [positive |-> 0, negative |-> 0, neutral |-> 0, den |-> 1]

\* the try block of analyze_sentiment
AnalyzeSentimentBody(text, language) ==
    IF text.kind = "none" \/ (text.kind = "str" /\ text.words = <<>> /\ ~text.spaces)
    THEN Analysis(NeutralSentiment, {}, <<>>, NoScores)      \* `not text`
    ELSE IF text.kind # "str" THEN Raised                      \* text.strip()
    ELSE IF Blank(text) THEN Analysis(NeutralSentiment, {}, <<>>, NoScores)
    ELSE LET words == PreprocessText(text).words
             scores == CalculateSentimentScores(words, language)
             d == DetermineSentiment(scores)
         IN Analysis(Sentiment(d.label, FinalScore(d.label, scores), d.confidence),
                     {"_preprocess_text", "_calculate_sentiment_scores",
                      "_analyze_contextual_sentiment", "_determine_sentiment"},
                     [i \in 1..Len(words) |-> Contribution(words, i, language)],
                     scores)

\* `except Exception: return Sentiment(label=NEUTRAL, score=0.0, confidence=0.0)`
analyze_sentiment(text, language) ==
    LET v == AnalyzeSentimentBody(text, language)
    IN IF IsRaised(v) THEN Analysis(NeutralSentiment, {"except"}, <<>>, NoScores) ELSE v

AnalyzeStep ==
    /\ sent.pc = "call"
    /\ LET a == analyze_sentiment(sent.text, sent.language)
       IN sent' = [sent EXCEPT !.pc = "returned", !.out = a.sentiment,
                               !.steps = a.steps, !.contrib = a.contrib,
                               !.scores = a.scores]
    /\ UNCHANGED <<pipeVars, rlVars, gen, cls, batch, clar, det, scr>>

\* the arguments of a call: a short text over every token in every language,
\* with or without extra blanks when over the core tokens; a longer english
\* text over the core tokens; None or a number
InitSent ==
    \E a \in {<<SentText(w, FALSE), l>> : w \in SeqsUpTo(Tokens, MaxShort), l \in AnyLanguages}
            \cup {<<SentText(w, TRUE), l>> : w \in SeqsUpTo(CoreTokens, MaxShort),
                                             l \in AnyLanguages}
            \cup {<<SentText(w, FALSE), "english">> : w \in SeqsUpTo(CoreTokens, MaxWords)}
            \cup {<<NonString(k), l>> : k \in {"none", "int"}, l \in AnyLanguages} :
        sent = [pc |-> "call", text |-> a[1], language |-> a[2], out |-> None,
                steps |-> {}, contrib |-> <<>>, scores |-> NoScores]

\* _determine_sentiment called with any three scores: numerators 0..ScoreDen
\* over the denominator ScoreDen
ScoreDen == 20

DetermineStep ==
    /\ det.pc = "call"
    /\ det' = [det EXCEPT !.pc = "returned", !.out = DetermineSentiment(det.scores)]
    /\ UNCHANGED <<pipeVars, rlVars, gen, cls, sent, batch, clar, scr>>

InitDet ==
    \E p, n, u \in 0..ScoreDen :
        det = [pc |-> "call",
               scores |-> [positive |-> p, negative |-> n, neutral |-> u, den |-> ScoreDen],
               out |-> None]

\* analyze_batch_sentiments: one task per text, joined by
\* asyncio.gather(*tasks, return_exceptions=True)

MaxBatch == 2       \* texts in one batch

\* the texts a batch is made of: two that score, a blank one, a number
BatchTexts ==
    {SentText(<<"good">>, FALSE), SentText(<<"not", "good">>, FALSE),
     SentText(<<>>, TRUE), NonString("int")}

\* a join that hands the results over in the order the tasks finished
CompletionOrder(results, done) == [k \in 1..Len(done) |-> results[done[k]]]

\* gather returns the results in the order of its arguments
Gathered(results, done) == results

\* tasks = [self.analyze_sentiment(text, language) for text in texts]
BatchStart ==
    /\ batch.pc = "call"
    /\ batch' = [batch EXCEPT !.pc = "gather",
                              !.results = [i \in 1..Len(batch.texts) |-> None]]
    /\ UNCHANGED <<pipeVars, rlVars, gen, cls, sent, clar, det, scr>>

\* the event loop runs one of the tasks; a task never suspends, so it runs
\* to its end
BatchTask(i) ==
    /\ batch.pc = "gather"
    /\ i <= Len(batch.texts)
    /\ batch.results[i] = None
    /\ batch' = [batch EXCEPT
                   !.results[i] = analyze_sentiment(batch.texts[i], batch.language).sentiment,
                   !.done = Append(batch.done, i)]
    /\ UNCHANGED <<pipeVars, rlVars, gen, cls, sent, clar, det, scr>>

\* gather returns once every task is done
BatchJoin ==
    /\ batch.pc = "gather"
    /\ \A i \in 1..Len(batch.texts) : batch.results[i] # None
    /\ LET results == Gathered(batch.results, batch.done)
       IN batch' = [batch EXCEPT
                      !.pc = "returned",
                      \* an exception object among the results becomes neutral
                      !.out = [i \in 1..Len(results) |->
                                 IF IsRaised(results[i]) THEN NeutralSentiment
                                 ELSE results[i]]]
    /\ UNCHANGED <<pipeVars, rlVars, gen, cls, sent, clar, det, scr>>

InitBatch ==
    \E texts \in SeqsUpTo(BatchTexts, MaxBatch), l \in AnyLanguages :
        batch = [pc |-> "call", texts |-> texts, language |-> l,
                 results |-> <<>>, done |-> <<>>, out |-> <<>>]

----------------------------------------------------------------------------
(* Orchestrator: routers/chat.py *)

NotCalled == [tag |-> "notcalled"]
NoTierOut == [api |-> NotCalled, scraping |-> NotCalled, mock |-> NotCalled]
NoResult == [type |-> "none", data |-> None, source |-> "none"]
\* the handler re-raised: ask_question's except clause takes over
HandlerRaised == [type |-> "exception", data |-> Raised, source |-> "none"]
NoResponse == [message |-> <<>>, source |-> "none", suggestions |-> <<>>, metadata |-> {}]
NoChat == [response |-> <<>>, intent |-> "none", data_source |-> "none",
           language |-> "english", suggestions |-> <<>>]
NoIntent == [name |-> "none",
             entities |-> [pincode |-> None, scheme_name |-> None, commodity_name |-> None]]

\* the "type" each handler gives its result
ResultType(name) ==
    CASE name = "survey_mla_name" -> "mla_info"
      [] name = "survey_mp_name" -> "mp_info"
      [] name = "ask_scheme_info" -> "scheme_info"
      [] name = "ask_phc_location" -> "phc_info"
      [] name = "ask_commodity_price" -> "price_info"
      [] name = "ask_pincode_help" -> "pincode_info"
      [] name = "general_faq" -> "faq"
      [] OTHER -> "fallback"

\* handle_pincode_help: the entity, else the question's first 6-digit number
PincodeArg(r, it) ==
    IF Truthy(it.entities.pincode) THEN it.entities.pincode ELSE SearchPincode(r.nums)

\* handle_pincode_help: `if not pincode: return {... "source": "validation"}`
\* a handler without the `if not pincode` early return
PincodeNeverMissing(r, it) == FALSE

PincodeMissing(r, it) == ~Truthy(PincodeArg(r, it))

ValidationResult == [type |-> "error", data |-> Dict({"message"}), source |-> "validation"]

\* the API call each handler makes
ApiTier(r, it) ==
    CASE it.name = "survey_mla_name" -> ApiGetMlaInfo(extract_location_info(r))
      [] it.name = "survey_mp_name" -> ApiGetMpInfo(extract_location_info(r))
      [] it.name = "ask_scheme_info" ->
            ApiGetSchemeInfo(EntityOr(it.entities.scheme_name, "PMAY"), r)
      [] it.name = "ask_phc_location" -> ApiGetHealthFacilities(extract_location_info(r), r)
      [] it.name = "ask_commodity_price" ->
            ApiGetCommodityPrices(EntityOr(it.entities.commodity_name, "wheat"),
                                  extract_location_info(r), r)
      [] OTHER -> ApiGetPincodeInfo(PincodeArg(r, it), r)

\* the scraper call each handler makes
ScraperTier(r, it) ==
    CASE it.name = "survey_mla_name" -> ScrapeMlaInfo(extract_location_info(r), r)
      [] it.name = "survey_mp_name" -> ScrapeMpInfo(extract_location_info(r), r)
      [] it.name = "ask_scheme_info" ->
            ScrapeSchemeInfo(EntityOr(it.entities.scheme_name, "PMAY"), r)
      [] it.name = "ask_phc_location" -> ScrapeHealthFacilities(extract_location_info(r), r)
      [] it.name = "ask_commodity_price" ->
            ScrapeCommodityPrices(EntityOr(it.entities.commodity_name, "wheat"),
                                  extract_location_info(r), r)
      [] OTHER -> ScrapePincodeInfo(PincodeArg(r, it), r)

\* the mock call each handler makes
MockTier(r, it) ==
    CASE it.name = "survey_mla_name" -> MockGetMlaInfo(extract_location_info(r))
      [] it.name = "survey_mp_name" -> MockGetMpInfo(extract_location_info(r))
      [] it.name = "ask_scheme_info" ->
            MockGetSchemeInfo(EntityOr(it.entities.scheme_name, "PMAY"))
      [] it.name = "ask_phc_location" -> MockGetHealthFacilities(extract_location_info(r))
      [] it.name = "ask_commodity_price" ->
            MockGetCommodityPrices(EntityOr(it.entities.commodity_name, "wheat"),
                                   extract_location_info(r))
      [] OTHER -> MockGetPincodeInfo(PincodeArg(r, it))

\* `try: x = await tier(...); if x: return {...}  except Exception: log`:
\* the handler returns from the API or scraper step only with a truthy value
Returns(v) == v.tag # "raise" /\ Truthy(v)

\* where the handler goes after the API step and after the scraper step
\* a handler that goes on to the scraper whatever the API tier returned
AfterApiUnchecked(v) == "scraper"

AfterApi(v) == IF Returns(v) THEN "assemble" ELSE "scraper"
AfterScraper(v) == IF Returns(v) THEN "assemble" ELSE "mock"

\* the mock step is outside the inner try blocks: whatever the mock tier
\* returns is returned with source "mock", and an exception is re-raised
MockResult(name, v) ==
    IF v.tag = "raise" THEN HandlerRaised
    ELSE [type |-> ResultType(name), data |-> v, source |-> "mock"]

\* ChatResponse(...) built from the assembler's response
ChatResponse(r, it, resp) ==
    [ response |-> resp.message, intent |-> it.name, data_source |-> resp.source,
      language |-> r.language, suggestions |-> resp.suggestions ]

\* ask_question's except clause
ExceptionChatResponse(r) ==
    [ response |-> <<Part("fallback_response", "english", "mock_data", 0)>>,
      intent |-> "fallback_handoff", data_source |-> "mock", language |-> r.language,
      suggestions |-> <<"Try asking about government schemes",
                        "Ask for health facilities near you">> ]

\* POST /ask arrives; detect_intent classifies it and extracts the entities
Receive(r) ==
    /\ pc = "idle"
    /\ req' = r
    /\ intent' = [name |-> r.intent, entities |-> ExtractEntities(r)]
    /\ pc' = "route"
    /\ UNCHANGED <<calls, tierOut, result, response, chat, rlVars, auxVars>>

\* ask_question picks the handler; the handler runs up to its first tier call
Route ==
    /\ pc = "route"
    /\ IF intent.name \in ChainIntents
       THEN IF intent.name = "ask_pincode_help" /\ PincodeMissing(req, intent)
            THEN result' = ValidationResult /\ pc' = "assemble"
            ELSE result' = result /\ pc' = "api"
       ELSE IF intent.name = "general_faq"
            THEN /\ result' = [type |-> "faq", data |-> MockGetGeneralFaq(req),
                               source |-> "knowledge_base"]
                 /\ pc' = "assemble"
            ELSE /\ result' = [type |-> "fallback", data |-> MockGetFallbackResponse(req),
                               source |-> "fallback"]
                 /\ pc' = "assemble"
    /\ UNCHANGED <<req, intent, calls, tierOut, response, chat, rlVars, auxVars>>

\* "Try API first"
CallApi ==
    /\ pc = "api"
    /\ LET v == ApiTier(req, intent)
       IN /\ calls' = Append(calls, "api")
          /\ tierOut' = [tierOut EXCEPT !.api = v]
          /\ pc' = AfterApi(v)
          /\ result' = IF AfterApi(v) = "assemble"
                       THEN [type |-> ResultType(intent.name), data |-> v, source |-> "api"]
                       ELSE result
    /\ UNCHANGED <<req, intent, response, chat, rlVars, auxVars>>

\* "Try web scraping"
CallScraper ==
    /\ pc = "scraper"
    /\ LET v == ScraperTier(req, intent)
       IN /\ calls' = Append(calls, "scraping")
          /\ tierOut' = [tierOut EXCEPT !.scraping = v]
          /\ pc' = AfterScraper(v)
          /\ result' = IF AfterScraper(v) = "assemble"
                       THEN [type |-> ResultType(intent.name), data |-> v,
                             source |-> "scraping"]
                       ELSE result
    /\ UNCHANGED <<req, intent, response, chat, rlVars, auxVars>>

\* "Fallback to mock data"
CallMock ==
    /\ pc = "mock"
    /\ LET v == MockTier(req, intent)
       IN /\ calls' = Append(calls, "mock")
          /\ tierOut' = [tierOut EXCEPT !.mock = v]
          /\ result' = MockResult(intent.name, v)
          /\ pc' = "assemble"
    /\ UNCHANGED <<req, intent, response, chat, rlVars, auxVars>>

\* generate_response and the ChatResponse; a handler that raised is answered
\* by ask_question's except clause instead
Assemble ==
    /\ pc = "assemble"
    /\ IF result = HandlerRaised
       THEN response' = response /\ chat' = ExceptionChatResponse(req)
       ELSE \E k \in 1..3 :
              /\ response' = GenerateResponse(intent.name, result, req.language, k)
              /\ chat' = ChatResponse(req, intent, response')
    /\ pc' = "done"
    /\ UNCHANGED <<req, intent, calls, tierOut, result, rlVars, auxVars>>

\* the request is over
Reset ==
    /\ pc = "done"
    /\ pc' = "idle"
    /\ req' = IdleRequest
    /\ intent' = NoIntent
    /\ calls' = <<>>
    /\ tierOut' = NoTierOut
    /\ result' = NoResult
    /\ response' = NoResponse
    /\ chat' = NoChat
    /\ UNCHANGED <<rlVars, auxVars>>

----------------------------------------------------------------------------
(* Rate limiter: APIClient._rate_limit_check *)

\* the names the API tier passes to _rate_limit_check
ApiNames == {"pincode_info", "scheme_info"}

\* "Reset counter every minute"
Window == 60

\* the clock advances in steps of half a window: a caller can arrive inside
\* the window, exactly at its end, and after it
TickSteps == {30}

\* dict.get(key, default) and dict[key] = value
Get(d, key, default) == IF key \in DOMAIN d THEN d[key] ELSE default
Put(d, key, value) == [x \in DOMAIN d \cup {key} |-> IF x = key THEN value ELSE d[x]]

\* `api_name not in self.last_request_time or current_time - last > 60`
WindowExpired(last, a, t) == a \notin DOMAIN last \/ t - last[a] > Window

\* `self.request_counts.get(api_name, 0) >= self.rate_limit`
BudgetSpent(counts, a) == Get(counts, a, 0) >= RateLimit

\* `wait_time = 60 - (current_time - self.last_request_time[api_name])`
WaitTime(last, a, t) == Window - (t - last[a])

\* what the caller that wakes from asyncio.sleep writes to the counter before
\* the final increment: `self.request_counts[api_name] = 0`
CountAfterSleep(counts, a) == 0

Sleeping == {c \in 1..NumCallers : rl[c].pc = "sleeping"}

\* a caller enters _rate_limit_check(a) and runs to its end, or to the sleep
Enter(c, a) ==
    /\ rl[c].pc = "idle"
    /\ Len(admits) + Cardinality(Sleeping) < MaxAdmits
    /\ LET t == now
           expired == WindowExpired(last_request_time, a, t)
           counts1 == IF expired THEN Put(request_counts, a, 0) ELSE request_counts
           last1 == IF expired THEN Put(last_request_time, a, t) ELSE last_request_time
       IN IF BudgetSpent(counts1, a) /\ WaitTime(last1, a, t) > 0
          THEN /\ rl' = [rl EXCEPT ![c] = [pc |-> "sleeping", api |-> a,
                                            wake |-> t + WaitTime(last1, a, t)]]
               /\ request_counts' = counts1
               /\ last_request_time' = last1
               /\ admits' = admits
          ELSE /\ request_counts' = Put(counts1, a, Get(counts1, a, 0) + 1)
               /\ last_request_time' = last1
               /\ admits' = Append(admits, [api |-> a, t |-> t, start |-> last1[a]])
               /\ rl' = rl
    /\ UNCHANGED <<now, pipeVars, auxVars>>

\* asyncio.sleep(wait_time) is over: reset, restart the window, count the call
Wake(c) ==
    /\ rl[c].pc = "sleeping"
    /\ now >= rl[c].wake
    /\ LET a == rl[c].api
       IN /\ request_counts' = Put(request_counts, a, CountAfterSleep(request_counts, a) + 1)
          /\ last_request_time' = Put(last_request_time, a, now)
          /\ admits' = Append(admits, [api |-> a, t |-> now, start |-> now])
    /\ rl' = [rl EXCEPT ![c] = [pc |-> "idle", api |-> "none", wake |-> 0]]
    /\ UNCHANGED <<now, pipeVars, auxVars>>

\* the caller's task is cancelled while it is suspended in asyncio.sleep:
\* CancelledError leaves _rate_limit_check at the await, and the lines after
\* it never run
Cancel(c) ==
    /\ rl[c].pc = "sleeping"
    /\ rl' = [rl EXCEPT ![c] = [pc |-> "idle", api |-> "none", wake |-> 0]]
    /\ UNCHANGED <<now, request_counts, last_request_time, admits, pipeVars, auxVars>>

\* time passes
Tick ==
    /\ \E d \in TickSteps : now + d <= MaxTime /\ now' = now + d
    /\ UNCHANGED <<request_counts, last_request_time, rl, admits, pipeVars, auxVars>>

NextRL ==
    \/ \E c \in 1..NumCallers, a \in ApiNames : Enter(c, a)
    \/ \E c \in 1..NumCallers : Wake(c)
    \/ \E c \in 1..NumCallers : Cancel(c)
    \/ Tick

InitPipe ==
    /\ pc = "idle"
    /\ req = IdleRequest
    /\ intent = NoIntent
    /\ calls = <<>>
    /\ tierOut = NoTierOut
    /\ result = NoResult
    /\ response = NoResponse
    /\ chat = NoChat

InitRL ==
    /\ now = 0
    /\ request_counts = <<>>
    /\ last_request_time = <<>>
    /\ rl = [c \in 1..NumCallers |-> [pc |-> "idle", api |-> "none", wake |-> 0]]
    /\ admits = <<>>

\* nothing has been asked of the assembler, the classifier or the scorer
NoCall == [pc |-> "idle"]

InitAux ==
    /\ gen = NoCall
    /\ cls = NoCall
    /\ sent = NoCall
    /\ batch = NoCall
    /\ clar = NoCall
    /\ det = NoCall
    /\ scr = NoCall

Init == InitPipe /\ InitRL /\ InitAux

HandlerStep == Route \/ CallApi \/ CallScraper \/ CallMock \/ Assemble

Next ==
    \/ \E r \in Requests : Receive(r)
    \/ Route
    \/ CallApi
    \/ CallScraper
    \/ CallMock
    \/ Assemble
    \/ Reset

Spec == Init /\ [][Next]_vars

\* a request that has started is carried through: every await of the handler
\* completes (the tiers run under timeouts) and its coroutine is resumed
LiveSpec == Init /\ [][Next]_vars /\ WF_vars(HandlerStep)

\* generate_response called with arbitrary arguments
InitResponse ==
    /\ InitPipe /\ InitRL
    /\ InitGen \/ InitFill
    /\ cls = NoCall /\ sent = NoCall /\ batch = NoCall /\ clar = NoCall
    /\ det = NoCall /\ scr = NoCall

SpecGen == InitResponse /\ [][GenerateStep]_vars

\* the text functions called with arbitrary arguments: detect_intent,
\* analyze_sentiment, analyze_batch_sentiments
InitText ==
    /\ InitPipe /\ InitRL /\ gen = NoCall /\ clar = NoCall
    /\ det = NoCall /\ scr = NoCall
    /\ \/ InitCls /\ sent = NoCall /\ batch = NoCall
       \/ InitSent /\ cls = NoCall /\ batch = NoCall
       \/ InitBatch /\ cls = NoCall /\ sent = NoCall

NextText ==
    \/ ClassifyStep
    \/ AnalyzeStep
    \/ BatchStart
    \/ \E i \in 1..MaxBatch : BatchTask(i)
    \/ BatchJoin

SpecText == InitText /\ [][NextText]_vars

\* the three functions that take a language code, called with any code
InitLang ==
    /\ InitPipe /\ InitRL /\ cls = NoCall /\ batch = NoCall
    /\ det = NoCall /\ scr = NoCall
    /\ \/ InitGen /\ sent = NoCall /\ clar = NoCall
       \/ InitSent /\ gen = NoCall /\ clar = NoCall
       \/ InitClar /\ gen = NoCall /\ sent = NoCall

NextLang ==
    \/ GenerateStep
    \/ AnalyzeStep
    \/ ClarifyStep

SpecLang == InitLang /\ [][NextLang]_vars

\* the sentiment decision, alone and inside analyze_sentiment
InitScore ==
    /\ InitPipe /\ InitRL /\ gen = NoCall /\ cls = NoCall /\ batch = NoCall
    /\ clar = NoCall /\ scr = NoCall
    /\ \/ InitDet /\ sent = NoCall
       \/ InitSent /\ det = NoCall

NextScore ==
    \/ DetermineStep
    \/ AnalyzeStep

SpecScore == InitScore /\ [][NextScore]_vars

\* concurrent calls on the shared WebScraper
InitScraper ==
    /\ InitPipe /\ InitRL /\ InitScr
    /\ gen = NoCall /\ cls = NoCall /\ sent = NoCall /\ batch = NoCall
    /\ clar = NoCall /\ det = NoCall

SpecScr == InitScraper /\ [][NextScr]_vars

\* the callers of the shared APIClient on one event loop
SpecRL == Init /\ [][NextRL]_vars

----------------------------------------------------------------------------
(* Properties of the data source chain *)

TierOrder == <<"api", "scraping", "mock">>

\* a request of a domain resolution whose handler has returned
HandlerReturned == pc \in {"assemble", "done"} /\ intent.name \in ChainIntents

\* C1: the tiers are invoked in the order API, scraper, mock, each at most
\* once; the scraper only after the API tier raised or came back empty, the
\* mock tier only after both did.
C1_TierOrder ==
    /\ Len(calls) <= Len(TierOrder)
    /\ calls = SubSeq(TierOrder, 1, Len(calls))
    /\ Len(calls) >= 2 => ~Returns(tierOut.api)
    /\ Len(calls) = 3 => ~Returns(tierOut.api) /\ ~Returns(tierOut.scraping)

\* C1, its case: a request that went through all three tiers
C1_Witness ==
    /\ pc = "done"
    /\ calls = TierOrder
    /\ result.source = "mock"

\* C2: the data_source of the chat response of a domain resolution is one of
\* api, scraping, mock, validation, and it is the source tag the handler set.
C2_SourcePreserved ==
    (pc = "done" /\ intent.name \in ChainIntents) =>
        /\ chat.data_source \in {"api", "scraping", "mock", "validation"}
        /\ chat.data_source = result.source

\* C3: a handler's result says api, scraping or mock only with that tier's
\* non-empty data; null or empty data comes with validation or fallback.
C3_SourceReflectsData ==
    HandlerReturned =>
        /\ result.source = "api" => result.data = tierOut.api /\ Truthy(result.data)
        /\ result.source = "scraping" =>
               result.data = tierOut.scraping /\ Truthy(result.data)
        /\ result.source = "mock" => result.data = tierOut.mock /\ Truthy(result.data)
        /\ ~Truthy(result.data) => result.source \in {"validation", "fallback"}

\* a pincode request whose question holds no 6-digit number, handler returned
NoPincodeGiven ==
    /\ pc \in {"assemble", "done"}
    /\ intent.name = "ask_pincode_help"
    /\ req.nums = <<>>

C5_MockNeverEmpty ==
    tierOut.mock # NotCalled =>
        /\ tierOut.mock.tag # "raise"
        /\ Truthy(tierOut.mock)
        /\ (intent.name = "ask_pincode_help" /\ Len(req.nums) = 1
            /\ req.nums[1] \notin MockPincodeDirectory) =>
               tierOut.mock = Model("PincodeInfo", Str(req.nums[1]), "mock", TRUE)

\* C6: a domain resolution that has started always comes to return a
\* DataSourceResult; no exception leaves the handler.
C6_EventuallyReturns ==
    (pc = "route" /\ intent.name \in ChainIntents)
        ~> (pc = "assemble" /\ result # HandlerRaised /\ result # NoResult)

\* C6, its case: the API timed out, the scraper failed, the mock tier answered
C6_Witness ==
    /\ pc = "assemble"
    /\ req.apiOut = "timeout"
    /\ req.scrOut = "error"
    /\ calls = TierOrder
    /\ result.source = "mock"
    /\ Truthy(result.data)

----------------------------------------------------------------------------
(* Properties of the response assembler *)

HasDisclaimer(message) ==
    \E i \in 1..Len(message) : message[i].part = "disclaimer"

\* C9: the message ends with the mock disclaimer of the request's language
\* when the result handed to generate_response says mock, and holds no
\* disclaimer when it says api or scraping.
C9_MockDisclaimer ==
    (pc = "done" /\ result # HandlerRaised) =>
        /\ result.source = "mock" =>
               /\ Len(response.message) >= 2
               /\ response.message[Len(response.message)] = MockDisclaimer(req.language)
        /\ result.source \in {"api", "scraping"} => ~HasDisclaimer(response.message)

\* C10: a non-empty record of any tier is formatted into the templated
\* message of its domain, with the tier as source.
C10_TierAgnostic ==
    (pc = "done" /\ intent.name \in ChainIntents
     /\ result.source \in {"api", "scraping", "mock"} /\ Truthy(result.data)) =>
        /\ response.source = result.source
        /\ Len(response.message) >= 1
        /\ response.message[1].part = "template"

----------------------------------------------------------------------------
(* Properties of the rate limiter *)

\* the calls of API a admitted in the 60 seconds that begin at time s
AdmittedInWindow(a, s) ==
    Cardinality({i \in 1..Len(admits) :
                   admits[i].api = a /\ admits[i].t >= s /\ admits[i].t < s + Window})

\* the calls of API a admitted at or after time s
AdmittedSince(a, s) ==
    Cardinality({i \in 1..Len(admits) : admits[i].api = a /\ admits[i].t >= s})

\* C7: for each API name, the calls admitted within 60 seconds of any window
\* start the limiter recorded for it are never more than the budget.
C7_BudgetRespected ==
    \A i \in 1..Len(admits) :
        AdmittedInWindow(admits[i].api, admits[i].start) <= RateLimit

\* C8: the counter of an API name is the number of its calls admitted since
\* the window start currently recorded, whatever the interleaving.
C8_CounterExact ==
    \A a \in DOMAIN request_counts :
        request_counts[a] = AdmittedSince(a, last_request_time[a])

----------------------------------------------------------------------------
(* Properties of generate_response as a function *)

ResponseKeys == {"message", "source", "suggestions", "metadata"}

\* C11: generate_response returns a mapping with message, source, suggestions
\* and metadata for every argument, and the localized error message with
\* source error when its body raised.
C11_NeverRaises ==
    gen.pc = "returned" =>
        /\ ~IsRaised(gen.out)
        /\ DOMAIN gen.out = ResponseKeys
        /\ Len(gen.out.message) >= 1
        /\ (gen.raw.shape # "dict" \/ gen.name = "null") =>
               /\ gen.out.source = "error"
               /\ gen.out.message =
                    <<Part("error", IF gen.language = "hindi" THEN "hindi" ELSE "english",
                           "error", 0)>>

\* C11, its case: the data argument was None and the call returned in hindi
C11_Witness ==
    /\ gen.pc = "returned"
    /\ gen.raw.shape = "none"
    /\ gen.language = "hindi"
    /\ gen.out.source = "error"

----------------------------------------------------------------------------
(* Properties of the intent classifier *)

\* the score of the reference classifier, as a fraction
ReferenceScore(i, q) ==
    LET nk == Cardinality(Keywords(i))
        np == Len(Patterns(i))
        n == 6 * KeywordMatches(i, q) * np + 4 * PatternMatches(i, q) * nk
        d == 10 * nk * np
    IN IF n > d THEN Frac(1, 1) ELSE Frac(n, d)

Exceeds(a, b) == a.num * b.den > b.num * a.den

SameValue(a, b) == a.num * b.den = b.num * a.den

Position(i) == CHOOSE n \in 1..Len(IntentOrder) : IntentOrder[n] = i

Classified == cls.pc = "returned" /\ cls.text.str

\* C12: the returned intent has the highest reference score, the first
\* declared among equals, with that score (in (0,1]) as confidence; when no
\* intent scores above 0 it is fallback_handoff with confidence 0.1 and no
\* entities.
C12_ReferenceClassifier ==
    Classified =>
        LET q == cls.text.words
            out == cls.out
        IN IF \A i \in Intents : ReferenceScore(i, q).num = 0
           THEN out = IntentOf("fallback_handoff", Frac(1, 10), {})
           ELSE /\ out.name \in Intents
                /\ SameValue(out.confidence, ReferenceScore(out.name, q))
                /\ out.confidence.num > 0
                /\ out.confidence.num <= out.confidence.den
                /\ \A i \in Intents :
                     /\ ~Exceeds(ReferenceScore(i, q), out.confidence)
                     /\ Position(i) < Position(out.name) =>
                            Exceeds(out.confidence, ReferenceScore(i, q))

\* C12, its case: two intents tie and the one declared first is returned
C12_Witness ==
    /\ Classified
    /\ cls.out.name = "opinion_mla"
    /\ SameValue(ReferenceScore("opinion_mla", cls.text.words),
                 ReferenceScore("opinion_mp", cls.text.words))

\* C13: a question that holds a keyword of an intent and matches no pattern
\* of any other intent is classified to that intent, with confidence > 0.
C13_KeywordClassifies ==
    Classified =>
        \A i \in Intents :
            (/\ KeywordMatches(i, cls.text.words) > 0
             /\ \A j \in Intents \ {i} : PatternMatches(j, cls.text.words) = 0)
            => cls.out.name = i /\ cls.out.confidence.num > 0

----------------------------------------------------------------------------
(* Properties of the sentiment scorer *)

\* C14: an exception inside detect_intent yields Intent(fallback_handoff,
\* 0.0, no entities) and an exception inside analyze_sentiment yields
\* Sentiment(neutral, 0.0, 0.0); neither call hands an exception to its caller.
C14_ErrorsContained ==
    /\ cls.pc = "returned" =>
          /\ ~IsRaised(cls.out)
          /\ ~cls.text.str =>
                cls.out = [name |-> "fallback_handoff", confidence |-> Frac(0, 1),
                           entities |-> {}]
    /\ sent.pc = "returned" =>
          /\ ~IsRaised(sent.out)
          /\ "except" \in sent.steps =>
                sent.out = [label |-> "neutral", score |-> Frac(0, 1),
                            confidence |-> Frac(0, 1)]

\* C14, its case: analyze_sentiment was called with a number and returned
C14_Witness ==
    sent.pc = "returned" /\ sent.text.kind = "int" /\ "except" \in sent.steps

AtMost(a, b) == a.num * b.den <= b.num * a.den

\* C15: every Sentiment has a label of the three, a score in [-1,1] and a
\* confidence in [0,1]; the score is the positive bucket and > 0 for
\* positive, minus the negative bucket and < 0 for negative, 0 for neutral.
C15_SentimentRange ==
    sent.pc = "returned" =>
        LET out == sent.out
        IN /\ out.label \in {"positive", "negative", "neutral"}
           /\ AtMost(Frac(0 - 1, 1), out.score) /\ AtMost(out.score, Frac(1, 1))
           /\ AtMost(Frac(0, 1), out.confidence) /\ AtMost(out.confidence, Frac(1, 1))
           /\ out.label = "positive" =>
                 /\ SameValue(out.score, Frac(sent.scores.positive, sent.scores.den))
                 /\ out.score.num > 0
           /\ out.label = "negative" =>
                 /\ SameValue(out.score, Frac(0 - sent.scores.negative, sent.scores.den))
                 /\ out.score.num < 0
           /\ out.label = "neutral" => out.score.num = 0

\* C15, its case: a negative label with a score below 0
C15_Witness ==
    sent.pc = "returned" /\ sent.out.label = "negative" /\ sent.out.score.num < 0

Scanned == sent.pc = "returned" /\ "_calculate_sentiment_scores" \in sent.steps

Opposite(type) ==
    CASE type = "positive" -> "negative"
      [] type = "negative" -> "positive"
      [] OTHER -> "neutral"

\* C16: in the scan a lexicon word with a negator at one of the three
\* positions before it adds its weight to the opposite bucket (neutral stays
\* neutral), any other lexicon word to its own bucket; "not good" is negative.
C16_NegationFlips ==
    Scanned =>
        LET words == PreprocessText(sent.text).words
            lang == LanguageOrEnglish(sent.language)
            NegatorBefore(i) ==
                \E j \in 1..Len(words) :
                    i - 3 <= j /\ j <= i - 1 /\ words[j] \in Negators(lang)
        IN /\ \A i \in 1..Len(words) : \A t \in SentimentTypes :
                 words[i] \in Lexicon(lang, t) =>
                    LET b == IF NegatorBefore(i) THEN Opposite(t) ELSE t
                    IN /\ sent.contrib[i][b] > 0
                       /\ \A o \in SentimentTypes \ {b} : sent.contrib[i][o] = 0
           /\ (words = <<"not", "good">> /\ lang = "english") =>
                 sent.out.label = "negative"

\* C16, its case: a negator three words before one positive word, four
\* before another
C16_Witness ==
    /\ Scanned
    /\ sent.text.words = <<"not", "work", "work", "good", "good">>
    /\ sent.contrib[4]["negative"] > 0
    /\ sent.contrib[5]["positive"] > 0

\* the word a token spells, whatever its case and the punctuation around it
WordOf(token) == IF token \in {"Good", "(good)", "good."} THEN "good" ELSE token

\* C17: a text with exactly one word of the language's lexicon, no negator
\* in the three tokens before it and no contextual phrase, is labelled with
\* that word's lexicon class.
C17_SingleWordLabel ==
    (sent.pc = "returned" /\ sent.text.kind = "str" /\ sent.language \in Languages) =>
        LET raw == sent.text.words
            lang == sent.language
            hits == {i \in 1..Len(raw) :
                        \E t \in SentimentTypes : WordOf(raw[i]) \in Lexicon(lang, t)}
        IN \A i \in hits : \A t \in SentimentTypes :
              (/\ hits = {i}
               /\ WordOf(raw[i]) \in Lexicon(lang, t)
               /\ ~\E j \in 1..Len(raw) :
                       i - 3 <= j /\ j <= i - 1 /\ WordOf(raw[j]) \in Negators(lang)
               /\ PatternMatchCount("positive", PreprocessText(sent.text).words) = 0
               /\ PatternMatchCount("negative", PreprocessText(sent.text).words) = 0)
              => sent.out.label = t

\* C18: empty or whitespace-only text gives Sentiment(neutral, 0.0, 0.0) in
\* every language, and neither the preprocessing nor any scan is run.
C18_BlankIsNeutral ==
    (sent.pc = "returned" /\ sent.text.kind = "str" /\ sent.text.words = <<>>) =>
        /\ sent.out = [label |-> "neutral", score |-> Frac(0, 1), confidence |-> Frac(0, 1)]
        /\ sent.steps = {}

\* C18, its case: a whitespace-only text in a language other than english
C18_Witness ==
    /\ sent.pc = "returned"
    /\ sent.text.kind = "str" /\ sent.text.words = <<>> /\ sent.text.spaces
    /\ sent.language = "hindi"

\* C19: the batch result has the length of the input and its i-th element
\* is what analyze_sentiment gives for the i-th text alone, in whatever order
\* the tasks ran; a failing item is neutral at its own position only.
C19_BatchIsPointwise ==
    batch.pc = "returned" =>
        /\ Len(batch.out) = Len(batch.texts)
        /\ \A i \in 1..Len(batch.texts) :
             /\ batch.out[i] = analyze_sentiment(batch.texts[i], batch.language).sentiment
             /\ batch.texts[i].kind = "int" =>
                   batch.out[i] = [label |-> "neutral", score |-> Frac(0, 1),
                                   confidence |-> Frac(0, 1)]

\* C19, its case: the second task ran first, the first item failed and the
\* second did not
C19_Witness ==
    /\ batch.pc = "returned"
    /\ batch.done = <<2, 1>>
    /\ batch.texts[1].kind = "int"
    /\ batch.out[2].label = "positive"

----------------------------------------------------------------------------
(* Properties of the language fallback *)

\* C20: with a language code outside the supported set, analyze_sentiment,
\* generate_response and generate_clarification_question do not error and
\* return what they return for language english on the same inputs.
C20_UnsupportedIsEnglish ==
    /\ (sent.pc = "returned" /\ sent.language \notin Languages) =>
          /\ sent.text.kind = "str" => "except" \notin sent.steps
          /\ sent.out = analyze_sentiment(sent.text, "english").sentiment
          /\ sent.steps = analyze_sentiment(sent.text, "english").steps
    /\ (gen.pc = "returned" /\ gen.language \notin Languages) =>
          /\ ~IsRaised(gen.out)
          /\ gen.out = generate_response(gen.name, gen.raw, "english", gen.k)
    /\ (clar.pc = "returned" /\ clar.language \notin Languages) =>
          /\ ~IsRaised(clar.out)
          /\ clar.out = generate_clarification_question(clar.intent_name,
                                                        clar.missing_entities, "english")

\* C20, its case: "not good" in an unsupported language is scored with the
\* english negators and lexicon
C20_Witness ==
    /\ sent.pc = "returned"
    /\ sent.language = "tamil"
    /\ sent.text.words = <<"not", "good">>
    /\ sent.out.label = "negative"

----------------------------------------------------------------------------
(* Properties of the sentiment decision *)

\* the largest and the second largest of the three scores
Top(scores) ==
    LET v == {scores.positive, scores.negative, scores.neutral}
    IN CHOOSE x \in v : \A y \in v : x >= y
Second(scores) ==
    LET sorted == CHOOSE q \in [1..3 -> {scores.positive, scores.negative, scores.neutral}] :
                     /\ q[1] >= q[2] /\ q[2] >= q[3]
                     /\ \E a, b, c \in 1..3 :
                          /\ {a, b, c} = {1, 2, 3}
                          /\ q[a] = scores.positive /\ q[b] = scores.negative
                          /\ q[c] = scores.neutral
    IN sorted[2]

C29_HalvedWithoutContext ==
    (Scanned /\ \A t \in {"positive", "negative"} : \A p \in ContextPatterns(t) :
                   ~PhraseIn(p, PreprocessText(sent.text).words)) =>
        LET n == Len(sent.contrib)
            m == [b \in SentimentTypes |-> SumBucket(sent.contrib, b, n)]
            total == m["positive"] + m["negative"] + m["neutral"]
        IN /\ \A b \in SentimentTypes :
                IF total = 0 THEN sent.scores[b] = 0
                ELSE 2 * total * sent.scores[b] = m[b] * sent.scores.den
           /\ 2 * sent.out.score.num <= sent.out.score.den
           /\ 0 - 2 * sent.out.score.num <= sent.out.score.den
           /\ 2 * sent.out.confidence.num <= sent.out.confidence.den

\* C29, its case: three sentiment words, no phrase, score exactly 0.5
C29_Witness ==
    /\ Scanned
    /\ sent.text.words = <<"good", "good", "good">>
    /\ 2 * sent.out.score.num = sent.out.score.den

\* C30: when two buckets tie for a maximum of at least 0.1 the label is the
\* first of positive, negative, neutral among them and the confidence is 0;
\* equal positive and negative scores give label positive, score above 0.
C30_TiePrecedence ==
    /\ det.pc = "returned" =>
          LET s == det.scores
              tied == {b \in SentimentTypes : s[b] = Top(s)}
          IN (Cardinality(tied) >= 2 /\ 10 * Top(s) >= s.den) =>
                /\ det.out.label = (IF "positive" \in tied THEN "positive" ELSE "negative")
                /\ det.out.confidence.num = 0
    /\ (Scanned /\ sent.scores.positive = sent.scores.negative
                /\ sent.scores.positive >= sent.scores.neutral
                /\ 10 * sent.scores.positive >= sent.scores.den) =>
          /\ sent.out.label = "positive"
          /\ sent.out.score.num > 0
          /\ sent.out.confidence.num = 0

\* C30, its case: "good bad" has equal positive and negative scores
C30_Witness ==
    /\ Scanned
    /\ sent.text.words = <<"good", "bad">>
    /\ sent.scores.positive = sent.scores.negative
    /\ sent.out.label = "positive"


\* a mapping with all three keys whose type is the formatter's own and whose
\* record is one the formatter can read
WellFormed(name, raw) ==
    /\ raw.shape = "dict"
    /\ raw.has = {"type", "data", "source"}
    /\ raw.type = FormatterType(name)
    /\ Truthy(raw.data)
    /\ IF FormatterType(name) \in {"phc_info", "price_info"}
       THEN /\ raw.data.tag = "list"
            /\ \A i \in 1..Len(raw.data.items) :
                  raw.data.items[i].tag = "dict" /\ "name" \in raw.data.items[i].keys
       ELSE raw.data.tag = "dict"

\* C25: every response generate_response returns, for every intent and every
\* supported language, on the data-present and on the data-absent path,
\* carries a non-empty list of suggestions.
C25_SuggestionsPresent ==
    (gen.pc = "returned" /\ gen.name \in Intents /\ gen.language \in Languages) =>
        Len(gen.out.suggestions) > 0

\* C28: in english and in hindi, a present well-formed record is never
\* answered with the error response for want of a template: every formatter
\* finds its template list in the language's own table.
C28_TemplateExists ==
    (/\ gen.pc = "returned"
     /\ gen.language \in {"english", "hindi"}
     /\ gen.name \in Intents
     /\ WellFormed(gen.name, gen.raw)) =>
        gen.out.source # "error"


\* C24: in every data-bearing response, of every formatter and for every
\* subset of the record's fields, no placeholder of the rendered template is
\* filled with the empty string or with null: a missing field renders as a
\* fixed non-empty default.
C24_NoEmptyPlaceholder ==
    (gen.pc = "returned" /\ gen.out.source \notin {"error", "fallback"}) =>
        \A ph \in DOMAIN gen.fills : gen.fills[ph] \notin {"", "None"}


\* C26: the handler ask_question picks for an intent and the formatter
\* generate_response picks for it agree: the result a handler returns has the
\* type the intent's formatter accepts, for every intent name, the two
\* opinion intents and the pincode handler's validation result included.
C26_HandlerFormatterAgree ==
    (pc = "assemble" /\ result # HandlerRaised) =>
        result.type = FormatterType(intent.name)

\* C27: the pincode handle_pincode_help hands to the API, scraper and mock
\* tiers is a single 6-digit string, also for a question that holds two
\* 6-digit numbers.
C27_SinglePincode ==
    (pc \in {"api", "scraper", "mock"} /\ intent.name = "ask_pincode_help") =>
        /\ PincodeArg(req, intent).tag = "str"
        /\ PincodeArg(req, intent).s \in Pincodes


\* the entry of a dictionary under a key, if it has one
Entry(d, a) == IF a \in DOMAIN d THEN <<d[a]>> ELSE <<>>

\* this step is (part of) a rate-limit check for the API name a: a call for
\* a is admitted, or a caller goes to sleep for a
Checks(a) ==
    \/ Len(admits') > Len(admits) /\ admits'[Len(admits')].api = a
    \/ \E c \in 1..NumCallers :
          rl[c].pc = "idle" /\ rl'[c].pc = "sleeping" /\ rl'[c].api = a

\* this step abandons a call suspended in the back-pressure sleep
Abandons ==
    /\ admits' = admits
    /\ \E c \in 1..NumCallers : rl[c].pc = "sleeping" /\ rl'[c].pc = "idle"

\* the window of a that is current before the step is over (or there is none)
RolledOver(a) ==
    a \notin DOMAIN last_request_time \/ now - last_request_time[a] >= Window

\* C22: a rate-limit check for an API name leaves the counter and window
\* start of every other name unchanged, and changes its own counter only by
\* +1 for the admitted call, or by a reset to 0 at a window rollover followed
\* by that +1, never by a decrement; a call abandoned in the back-pressure
\* sleep leaves every counter and window start as it was before the call.
C22_CountersOnlyGrow ==
    [][ /\ \A a \in ApiNames :
             IF Checks(a)
             THEN \/ /\ admits' = admits
                     /\ Entry(request_counts', a) = Entry(request_counts, a)
                     /\ Entry(last_request_time', a) = Entry(last_request_time, a)
                  \/ /\ admits' # admits
                     /\ request_counts'[a] = Get(request_counts, a, 0) + 1
                     /\ Entry(last_request_time', a) = Entry(last_request_time, a)
                  \/ /\ admits' # admits
                     /\ RolledOver(a)
                     /\ request_counts'[a] = 1
                     /\ last_request_time'[a] = now
             ELSE /\ Entry(request_counts', a) = Entry(request_counts, a)
                  /\ Entry(last_request_time', a) = Entry(last_request_time, a)
        /\ Abandons => /\ request_counts' = request_counts
                       /\ last_request_time' = last_request_time ]_vars


\* C21: calls in flight on the shared scraper do not interfere: a call whose
\* browser was torn down by another call's cleanup while it was suspended
\* still returns data whenever the same call, run alone, returns data.
C21_TeardownHarmless ==
    \A c \in 1..NumScrapers :
        (/\ scr.pc = "run"
         /\ scr.call[c].pc = "returned"
         /\ scr.call[c].torn
         /\ Truthy(ScrapeAlone(scr.call[c].method, scr.call[c].env))) =>
            Truthy(scr.call[c].out)

====
